---- MODULE Spec2Model ----
(***************************************************************************)
(* Verification model of the invoice bot (processor.py, store.py,          *)
(* moderation.py, keyboards.py, main_web.py, main_web_v2.py).              *)
(*                                                                         *)
(* Text is modelled as a sequence of characters, each character a          *)
(* one-element string ("A", "|", "=", "0" ...).  Characters that have no   *)
(* ASCII spelling are written as tokens: "NBSP" (U+00A0), "LAQUO" and      *)
(* "RAQUO" (the angle quotes), "iacute".  A Python dict is a function      *)
(* whose DOMAIN is the set of its keys.  None and the empty string (or the *)
(* empty dict) are both written <<>>: processor.py only ever tests these   *)
(* values for truthiness ("if fields", "not st", "fields or {}").          *)
(***************************************************************************)
EXTENDS Integers, Sequences, FiniteSets, TLC

(***************************************************************************)
(* Program constants.                                                      *)
(***************************************************************************)
BIC_LEN == 9
ACC_LEN == 20
PREVIEW_MAX == 120
PREVIEW_CUT == 117

(***************************************************************************)
(* Characters and strings.                                                 *)
(***************************************************************************)
NBSP == "NBSP"
Digits == {"0", "1", "2", "3", "4", "5", "6", "7", "8", "9"}
\* str.strip() and the regex class \s: Unicode whitespace, NBSP included.
Whitespace == {" ", "\t", "\n", "\r", NBSP}

DigitVal(c) ==
  CASE c = "0" -> 0 [] c = "1" -> 1 [] c = "2" -> 2 [] c = "3" -> 3
    [] c = "4" -> 4 [] c = "5" -> 5 [] c = "6" -> 6 [] c = "7" -> 7
    [] c = "8" -> 8 [] c = "9" -> 9

DigitChar(n) ==
  CASE n = 0 -> "0" [] n = 1 -> "1" [] n = 2 -> "2" [] n = 3 -> "3"
    [] n = 4 -> "4" [] n = 5 -> "5" [] n = 6 -> "6" [] n = 7 -> "7"
    [] n = 8 -> "8" [] n = 9 -> "9"

StartsWith_DropLast(s, p) ==
  Len(s) >= Len(p) - 1 /\ SubSeq(s, 1, Len(p) - 1) = SubSeq(p, 1, Len(p) - 1)

\* str.startswith
StartsWith(s, p) == Len(s) >= Len(p) /\ SubSeq(s, 1, Len(p)) = p

\* str.find + 1: the index of the first c in s, 0 when there is none.
IndexOf(s, c) ==
  IF \E i \in 1..Len(s) : s[i] = c
  THEN CHOOSE i \in 1..Len(s) : s[i] = c /\ \A j \in 1..(i - 1) : s[j] # c
  ELSE 0

\* str.split(c)
RECURSIVE Split(_, _)
Split(s, c) ==
  LET i == IndexOf(s, c)
  IN  IF i = 0 THEN <<s>>
      ELSE <<SubSeq(s, 1, i - 1)>> \o Split(SubSeq(s, i + 1, Len(s)), c)

\* str.join
RECURSIVE Join(_, _)
Join(parts, sep) ==
  IF parts = <<>> THEN <<>>
  ELSE IF Len(parts) = 1 THEN parts[1]
  ELSE parts[1] \o sep \o Join(Tail(parts), sep)

\* str.strip()
RECURSIVE LStrip(_)
LStrip(s) == IF s # <<>> /\ Head(s) \in Whitespace THEN LStrip(Tail(s)) ELSE s
RECURSIVE RStrip(_)
RStrip(s) ==
  IF s # <<>> /\ s[Len(s)] \in Whitespace THEN RStrip(SubSeq(s, 1, Len(s) - 1)) ELSE s
Strip(s) == RStrip(LStrip(s))

\* str.isdigit() on the characters of the model
IsDigitStr(s) == s # <<>> /\ \A i \in 1..Len(s) : s[i] \in Digits

\* int(s) for a string of decimal digits
RECURSIVE ToInt(_)
ToInt(s) == IF s = <<>> THEN 0 ELSE 10 * ToInt(SubSeq(s, 1, Len(s) - 1)) + DigitVal(s[Len(s)])

\* str(n) for n >= 0
RECURSIVE ToStr(_)
ToStr(n) == IF n < 10 THEN <<DigitChar(n)>> ELSE ToStr(n \div 10) \o <<DigitChar(n % 10)>>

_digits_only_Keep(s) == s

\* re.sub(r"\D+", "", s)
_digits_only(s) == SelectSeq(s, LAMBDA c : c \in Digits)

\* The spelling of a field key in a payment-code string.
KeyChars(k) ==
  CASE k = "Name"        -> <<"N", "a", "m", "e">>
    [] k = "PersonalAcc" -> <<"P", "e", "r", "s", "o", "n", "a", "l", "A", "c", "c">>
    [] k = "BankName"    -> <<"B", "a", "n", "k", "N", "a", "m", "e">>
    [] k = "BIC"         -> <<"B", "I", "C">>
    [] k = "CorrespAcc"  -> <<"C", "o", "r", "r", "e", "s", "p", "A", "c", "c">>
    [] k = "Sum"         -> <<"S", "u", "m">>
    [] k = "Purpose"     -> <<"P", "u", "r", "p", "o", "s", "e">>
    [] k = "PayeeINN"    -> <<"P", "a", "y", "e", "e", "I", "N", "N">>
    [] k = "KPP"         -> <<"K", "P", "P">>

ST00012_REQUIRED == <<"Name", "PersonalAcc", "BankName", "BIC", "CorrespAcc", "Sum", "Purpose">>
OPTIONAL_FIELDS == <<"PayeeINN", "KPP">>
RequiredKeys == {ST00012_REQUIRED[i] : i \in 1..Len(ST00012_REQUIRED)}
AllKeys == RequiredKeys \cup {OPTIONAL_FIELDS[i] : i \in 1..Len(OPTIONAL_FIELDS)}

\* "ST00012" and "ST00012|"
FormatTag == <<"S", "T", "0", "0", "0", "1", "2">>
TagSep == FormatTag \o <<"|">>

(***************************************************************************)
(* _validate_st00012.  The result is the reason code: <<>> for None, a     *)
(* one-element sequence for a fixed code, and <<"missing:", k1, ..., kn>>  *)
(* for "missing:" + ",".join([k1, ..., kn]).                               *)
(***************************************************************************)
\* The dict built by the loop over st.split("|")[1:]: a segment without "="
\* is skipped, a repeated key keeps its last value.
ParseKV(segs) ==
  LET withEq == {i \in 1..Len(segs) : IndexOf(segs[i], "=") # 0}
      keyOf(i) == SubSeq(segs[i], 1, IndexOf(segs[i], "=") - 1)
      valOf(i) == SubSeq(segs[i], IndexOf(segs[i], "=") + 1, Len(segs[i]))
      last(k) == CHOOSE i \in withEq : keyOf(i) = k /\ \A j \in withEq : keyOf(j) = k => j <= i
  IN  [k \in {keyOf(i) : i \in withEq} |-> valOf(last(k))]

MissingKeys_NoStrip(fields) ==
  SelectSeq(ST00012_REQUIRED,
            LAMBDA k : KeyChars(k) \notin DOMAIN fields \/ fields[KeyChars(k)] = <<>>)

\* missing = [k for k in ST00012_REQUIRED if k not in fields or not str(fields[k]).strip()]
MissingKeys(fields) ==
  SelectSeq(ST00012_REQUIRED,
            LAMBDA k : KeyChars(k) \notin DOMAIN fields \/ Strip(fields[KeyChars(k)]) = <<>>)

_validate_st00012(st) ==
  IF st = <<>> \/ ~StartsWith(st, TagSep) THEN <<"payload is not ST00012">>
  ELSE
    LET fields == ParseKV(Tail(Split(st, "|")))
        missing == MissingKeys(fields)
    IN  IF missing # <<>> THEN <<"missing:">> \o missing
        ELSE
          LET bic == _digits_only(fields[KeyChars("BIC")])
              pa  == _digits_only(fields[KeyChars("PersonalAcc")])
              ca  == _digits_only(fields[KeyChars("CorrespAcc")])
              s   == _digits_only(fields[KeyChars("Sum")])
          IN  IF Len(bic) # BIC_LEN THEN <<"bad_bic">>
              ELSE IF Len(pa) # ACC_LEN THEN <<"bad_personal">>
              ELSE IF Len(ca) # ACC_LEN THEN <<"bad_corresp">>
              ELSE IF ~IsDigitStr(s) \/ ToInt(s) <= 0 THEN <<"bad_sum">>
              ELSE IF Strip(fields[KeyChars("Purpose")]) = <<>> THEN <<"bad_purpose">>
              ELSE <<>>

(***************************************************************************)
(* A fields dict is a record [vals, ints]: vals maps each key present to   *)
(* the text of its value (str(value)), ints is the set of keys whose JSON  *)
(* value is a number rather than a string.                                 *)
(***************************************************************************)
NoFields == [vals |-> <<>>, ints |-> {}]
\* bool(fields): a dict is true when it has a key
Truthy(fields) == DOMAIN fields.vals # {}
\* fields.get(k, '')
Get(fields, k) == IF k \in DOMAIN fields.vals THEN fields.vals[k] ELSE <<>>

OcrFixChar(c) ==
  CASE c \in {"O", "o"} -> "0"
    [] c \in {"I", "l", "iacute"} -> "1"
    [] c = "B" -> "8"
    [] c = "S" -> "5"
    [] c = "Z" -> "2"
    [] OTHER -> c

_ocr_digit_fix(s) == [i \in 1..Len(s) |-> OcrFixChar(s[i])]

ReplaceChar(s, from, to) == [i \in 1..Len(s) |-> IF s[i] = from THEN to ELSE s[i]]

\* s.replace("  ", " ") in the place of the regular expression
RECURSIVE CollapseWS_Pairwise(_)
CollapseWS_Pairwise(s) ==
  IF Len(s) < 2 THEN s
  ELSE IF s[1] \in Whitespace /\ s[2] \in Whitespace
       THEN <<" ">> \o CollapseWS_Pairwise(SubSeq(s, 3, Len(s)))
       ELSE <<s[1]>> \o CollapseWS_Pairwise(Tail(s))

\* re.sub(r"\s+", " ", s)
RECURSIVE CollapseWS(_)
CollapseWS(s) ==
  IF s = <<>> THEN <<>>
  ELSE IF Head(s) \in Whitespace THEN <<" ">> \o CollapseWS(LStrip(s))
  ELSE <<Head(s)>> \o CollapseWS(Tail(s))

Unquote(s) == ReplaceChar(ReplaceChar(s, "LAQUO", "\""), "RAQUO", "\"")

DigitKeys == {"PersonalAcc", "CorrespAcc", "BIC", "Sum", "PayeeINN", "KPP"}

SanitizeValue(k, v) ==
  CASE k \in DigitKeys -> _digits_only(_ocr_digit_fix(v))
    [] k = "Purpose" -> Unquote(CollapseWS(Strip(ReplaceChar(v, NBSP, " "))))
    [] k \in {"Name", "BankName"} -> CollapseWS(Strip(Unquote(ReplaceChar(v, NBSP, " "))))
    [] OTHER -> v

\* Only values that are str are rewritten (isinstance(f[k], str)).
_sanitize_fields(fields) ==
  [vals |-> [k \in DOMAIN fields.vals |->
               IF k \in fields.ints THEN fields.vals[k]
               ELSE SanitizeValue(k, fields.vals[k])],
   ints |-> fields.ints]

Segment(k, v) == KeyChars(k) \o <<"=">> \o v

_build_st00012_from_fields(fields) ==
  LET required == [i \in 1..Len(ST00012_REQUIRED) |->
                     Segment(ST00012_REQUIRED[i], Get(fields, ST00012_REQUIRED[i]))]
      inn == IF Get(fields, "PayeeINN") # <<>>
             THEN <<Segment("PayeeINN", fields.vals["PayeeINN"])>> ELSE <<>>
      kpp == IF Get(fields, "KPP") # <<>>
             THEN <<Segment("KPP", fields.vals["KPP"])>> ELSE <<>>
  IN  TagSep \o Join(required \o inn \o kpp, <<"|">>)

(***************************************************************************)
(* _fields_preview.  The preview is the sequence of its lines, each line   *)
(* [key, text] with text what follows the line's title and ": ".  The      *)
(* titles are Cyrillic; only their lengths matter to the program (line     *)
(* 572 compares len() of two previews), so TitleLen gives them.            *)
(***************************************************************************)
PreviewOrder == <<"Name", "PayeeINN", "KPP", "BankName", "BIC", "CorrespAcc", "PersonalAcc",
                  "Sum", "Purpose">>

TitleLen(k) ==
  CASE k = "Name" -> 10 [] k = "PayeeINN" -> 3 [] k = "KPP" -> 3 [] k = "BankName" -> 4
    [] k = "BIC" -> 3 [] k = "CorrespAcc" -> 10 [] k = "PersonalAcc" -> 6
    [] k = "Sum" -> 5 [] k = "Purpose" -> 10

\* " RUB (в копейках: ", one Latin letter for each Cyrillic one
RubMid == <<" ", "R", "U", "B", " ", "(", "v", " ", "k", "o", "p", "e", "j", "k", "a", "h",
            ":", " ">>

\* if len(v) > 120: v = v[:117] + "..."
Shorten(v) ==
  IF Len(v) > PREVIEW_MAX THEN SubSeq(v, 1, PREVIEW_CUT) \o <<".", ".", ".">> ELSE v

\* f"{int(s)/100:.2f}"
Rubles(n) == ToStr(n \div 100) \o <<".">> \o <<DigitChar((n % 100) \div 10), DigitChar(n % 10)>>

\* int(fields['Sum']) raises for a string that is no integer: then rub = str(fields['Sum'])
SumLine(fields) ==
  LET s == fields.vals["Sum"]
      rub == IF IsDigitStr(s) THEN Rubles(ToInt(s)) ELSE s
  IN  rub \o RubMid \o s \o <<")">>

_fields_preview(fields) ==
  LET shown == SelectSeq(PreviewOrder, LAMBDA k : k \in DOMAIN fields.vals)
  IN  [i \in 1..Len(shown) |->
         [key |-> shown[i],
          text |-> IF shown[i] = "Sum" THEN SumLine(fields)
                   ELSE Shorten(fields.vals[shown[i]])]]

RECURSIVE SumLens(_)
SumLens(lines) ==
  IF lines = <<>> THEN 0
  ELSE TitleLen(Head(lines).key) + 2 + Len(Head(lines).text) + SumLens(Tail(lines))

\* len("\n".join(show))
PreviewLen(lines) == IF lines = <<>> THEN 0 ELSE SumLens(lines) + (Len(lines) - 1)

(***************************************************************************)
(* _reason_human: the explanation shown for a reason code.  Each fixed     *)
(* text is named by a token; the text for missing fields carries the       *)
(* names of the fields; any other code is returned as it is.               *)
(***************************************************************************)
_reason_human(code) ==
  IF code = <<>> THEN <<>>
  ELSE IF code[1] = "missing:" THEN <<"H:required fields are missing">> \o Tail(code)
  ELSE IF code = <<"bad_bic">> THEN <<"H:BIC must have exactly 9 digits">>
  ELSE IF code = <<"bad_personal">> THEN <<"H:payee account must have exactly 20 digits">>
  ELSE IF code = <<"bad_corresp">> THEN <<"H:correspondent account must have exactly 20 digits">>
  ELSE IF code = <<"bad_sum">> THEN <<"H:amount must be a positive integer of kopecks">>
  ELSE IF code = <<"bad_purpose">> THEN <<"H:purpose must not be empty">>
  ELSE IF code = <<"payload is not ST00012">> THEN <<"H:QR string is not in ST00012 format">>
  ELSE IF code = <<"failed to parse key=value pairs">> THEN <<"H:could not parse key=value pairs">>
  ELSE code

(***************************************************************************)
(* Lines 543-550 and 562-569: the payment code is rebuilt from the fields  *)
(* when the model's st is empty or does not start with "ST00012|".         *)
(***************************************************************************)
\* re.sub(r"[^\d,\.]", "", s).replace(",", ".")
RubText(s) == ReplaceChar(SelectSeq(s, LAMBDA c : c \in Digits \cup {",", "."}), ",", ".")

\* float(rub) succeeds: digits with at most one point and at least one digit
FloatOk(rub) ==
  /\ \E i \in 1..Len(rub) : rub[i] \in Digits
  /\ Cardinality({i \in 1..Len(rub) : rub[i] = "."}) <= 1

\* int(round(float(rub) * 100))
Kopecks(rub) ==
  LET dot == IndexOf(rub, ".")
      whole == IF dot = 0 THEN rub ELSE SubSeq(rub, 1, dot - 1)
      frac == IF dot = 0 THEN <<>> ELSE SubSeq(rub, dot + 1, Len(rub))
      padded == frac \o <<"0", "0", "0">>
      up == IF DigitVal(padded[3]) >= 5 THEN 1 ELSE 0
  IN  ToInt(whole) * 100 + ToInt(SubSeq(padded, 1, 2)) + up

\* fields["Sum"].isdigit() raises AttributeError when Sum is a number
SumRaises(st, fields) ==
  /\ (st = <<>> \/ ~StartsWith(st, TagSep)) /\ Truthy(fields)
  /\ "Sum" \in DOMAIN fields.vals /\ "Sum" \in fields.ints
  /\ ToInt(fields.vals["Sum"]) # 0

FixSum(fields) ==
  IF /\ "Sum" \in DOMAIN fields.vals
     /\ fields.vals["Sum"] # <<>>
     /\ ~IsDigitStr(fields.vals["Sum"])
     /\ FloatOk(RubText(fields.vals["Sum"]))
  THEN [fields EXCEPT !.vals["Sum"] = ToStr(Kopecks(RubText(fields.vals["Sum"])))]
  ELSE fields

\* What one attempt yields from what _call_gpt_on_file returned: the fields
\* sanitized, the payment code (rebuilt if need be) and its reason code.
Attempt(got) ==
  LET f1 == IF Truthy(got.fields) THEN _sanitize_fields(got.fields) ELSE got.fields
      rebuild == (got.st = <<>> \/ ~StartsWith(got.st, TagSep)) /\ Truthy(f1)
      f2 == IF rebuild THEN FixSum(f1) ELSE f1
      s2 == IF rebuild THEN _build_st00012_from_fields(f2) ELSE got.st
  IN  [raises |-> SumRaises(got.st, f1),
       st |-> s2, fields |-> f2, notes |-> got.notes,
       err |-> IF s2 # <<>> THEN _validate_st00012(s2) ELSE <<"payload is not ST00012">>]

(***************************************************************************)
(* _call_gpt_on_file.  The file is described by what the local extractors  *)
(* make of its bytes; the reply is what the model service does.            *)
(***************************************************************************)
TEXT_BUDGET == 15000
MAX_PAGES == 3

Min_First(a, b) == a

Min(a, b) == IF a < b THEN a ELSE b
Cut(txt) == SubSeq(txt, 1, Min(Len(txt), TEXT_BUDGET))

\* The user content of the request, or "none" when the function returns
\* before calling the model.
Request(file) ==
  IF file.file_type = "photo" THEN [kind |-> "photo", text |-> <<>>, images |-> 1]
  ELSE IF file.file_type = "document" THEN
    LET txt == IF file.is_pdf THEN file.pdf_text ELSE <<>>
    IN  IF txt # <<>> /\ Strip(txt) # <<>>
        THEN [kind |-> "pdf_text", text |-> Cut(txt), images |-> 0]
        ELSE IF file.is_pdf THEN
               IF Min(file.pages, MAX_PAGES) = 0
               THEN [kind |-> "none", text |-> <<>>, images |-> 0]
               ELSE [kind |-> "pdf_scan", text |-> <<>>, images |-> Min(file.pages, MAX_PAGES)]
        ELSE IF file.docx_text # <<>> /\ Strip(file.docx_text) # <<>>
             THEN [kind |-> "docx_text", text |-> Cut(file.docx_text), images |-> 0]
             ELSE [kind |-> "no_text", text |-> <<>>, images |-> 0]
  ELSE IF file.file_type = "excel"
       THEN [kind |-> "excel", text |-> Cut(file.excel_text), images |-> 0]
  ELSE [kind |-> "other", text |-> Cut(file.pdf_text), images |-> 0]

\* The triple (st, fields, notes) returned for a request and a reply.
_call_gpt_on_file(file, reply) ==
  IF Request(file).kind = "none"
  THEN [st |-> <<>>, fields |-> NoFields,
        notes |-> {"PDF is a scan and could not be rendered to images"}]
  ELSE IF reply.kind = "gpt_error"
  THEN [st |-> <<>>, fields |-> NoFields, notes |-> {"GPT error"}]
  ELSE IF reply.kind = "no_json"
  THEN [st |-> <<>>, fields |-> NoFields, notes |-> {"Bad JSON from GPT: no JSON object found"}]
  ELSE IF reply.kind = "bad_json"
  THEN [st |-> <<>>, fields |-> NoFields, notes |-> {"Bad JSON from GPT: decode error"}]
  ELSE [st |-> Strip(reply.st), fields |-> reply.fields, notes |-> reply.notes]

(***************************************************************************)
(* Bounds of the model and the inputs drawn within them.                   *)
(***************************************************************************)
\* GPT_MAX_RETRY_ON_FAIL ranges over 0..MaxRetryCfg
MaxRetryCfg == 2
\* a PDF has 0..MaxPdfPages pages that can be rendered
MaxPdfPages == 4

Rep(c, n) == [i \in 1..n |-> c]

GoodBIC == <<"0", "4", "4", "5", "2", "5", "2", "2", "5">>
GoodAcc == <<"4", "0", "7", "0", "2", "8", "1", "0">> \o Rep("0", 12)
GoodCorr == <<"3", "0", "1", "0", "1", "8", "1", "0">> \o Rep("0", 12)
GoodSum == <<"1", "7", "9", "5", "0", "0">>
\* the BIC above as a scan may render it
OcrBIC == <<"O", "4", "4", "5", "2", "5", "2", "2", "S">>

Str(vals) == [vals |-> vals, ints |-> {}]

FullVals ==
  [k \in RequiredKeys |->
     CASE k = "Name" -> <<"A", "c", "m", "e">>
       [] k = "PersonalAcc" -> GoodAcc
       [] k = "BankName" -> <<"B", "a", "n", "k">>
       [] k = "BIC" -> GoodBIC
       [] k = "CorrespAcc" -> GoodCorr
       [] k = "Sum" -> GoodSum
       [] k = "Purpose" -> <<"n", "o", " ", "V", "A", "T">>]

Without(vals, k) == [j \in DOMAIN vals \ {k} |-> vals[j]]

\* Field maps the model may return.
F_full == Str(FullVals)
F_noBIC == Str(Without(FullVals, "BIC"))
F_noBICnoSum == Str(Without(Without(FullVals, "BIC"), "Sum"))
F_blank == Str([k \in RequiredKeys |-> <<>>])
F_two == Str([k \in {"Name", "BIC"} |-> FullVals[k]])
F_sumInt == [vals |-> FullVals, ints |-> {"Sum"}]
F_ocrBIC == Str([FullVals EXCEPT !["BIC"] = OcrBIC])
\* Sum as an amount of rubles: "1 795,00" and "1795.5"
Sum_Spaced == <<"1", " ", "7", "9", "5", ",", "0", "0">>
Sum_OneDecimal == <<"1", "7", "9", "5", ".", "5">>
F_sumSpaced == Str([FullVals EXCEPT !["Sum"] = Sum_Spaced])
F_sumOneDecimal == Str([FullVals EXCEPT !["Sum"] = Sum_OneDecimal])

\* A payment code written by the model itself.
ModelSt == _build_st00012_from_fields(F_full)
\* The same with the BIC as the scan renders it, and one with a wrong tag.
OcrSt == _build_st00012_from_fields(F_ocrBIC)
WrongTagSt == <<"X">> \o Tail(ModelSt)

JsonReply(st_, fields_, notes_) ==
  [kind |-> "json", st |-> st_, fields |-> fields_, notes |-> notes_]
Failure(kind_) == [kind |-> kind_, st |-> <<>>, fields |-> NoFields, notes |-> {}]

\* What the model service may answer to one request.
Replies ==
  { Failure("gpt_error"), Failure("no_json"), Failure("bad_json"),
    JsonReply(<<>>, F_full, {"note A"}),
    JsonReply(ModelSt, F_two, {}),
    JsonReply(<<>>, F_noBIC, {"note A"}),
    JsonReply(<<>>, F_noBICnoSum, {"note B"}),
    JsonReply(<<>>, F_blank, {"note B"}),
    JsonReply(<<>>, F_two, {}),
    JsonReply(<<>>, F_sumInt, {}),
    JsonReply(ModelSt, F_sumInt, {}),
    JsonReply(WrongTagSt, F_full, {}),
    JsonReply(<<>>, F_ocrBIC, {}),
    JsonReply(OcrSt, F_ocrBIC, {}),
    JsonReply(<<>>, F_sumSpaced, {}),
    JsonReply(<<>>, F_sumOneDecimal, {}),
    JsonReply(<<>>, NoFields, {"note A"}) }

SomeText == <<"t", "e", "x", "t">>
File(type, pdf, ptxt, pages_, dtxt, xtxt) ==
  [file_type |-> type, is_pdf |-> pdf, pdf_text |-> ptxt, pages |-> pages_,
   docx_text |-> dtxt, excel_text |-> xtxt]

\* The documents: a photo, PDFs with a text layer, scanned PDFs that render
\* to 0..MaxPdfPages images, other documents with and without text,
\* spreadsheets with and without text, and a file of another declared kind.
Files ==
  { File("photo", FALSE, <<>>, 0, <<>>, <<>>),
    File("document", TRUE, SomeText, 1, <<>>, <<>>),
    File("document", FALSE, <<>>, 0, SomeText, <<>>),
    File("document", FALSE, <<>>, 0, <<>>, <<>>),
    File("excel", FALSE, <<>>, 0, <<>>, SomeText),
    File("excel", FALSE, <<>>, 0, <<>>, <<>>),
    File("unknown", FALSE, <<>>, 0, <<>>, <<>>) }
  \cup { File("document", TRUE, txt, n, <<>>, <<>>) : txt \in {<<>>, <<" ">>}, n \in {0, MaxPdfPages} }

demo_payload ==
  TagSep \o Join(<<Segment("Name", <<"E", "R", "R", "O", "R">>),
                   Segment("PersonalAcc", Rep("0", 20)),
                   Segment("BankName", <<"E", "R", "R", "O", "R">>),
                   Segment("BIC", Rep("0", 9)),
                   Segment("CorrespAcc", Rep("0", 20)),
                   Segment("Sum", <<"0">>),
                   Segment("Purpose", <<"P", "a", "r", "s", "e", " ", "f", "a", "i", "l", "e", "d">>)>>,
                 <<"|">>)

(***************************************************************************)
(* State.                                                                  *)
(***************************************************************************)
VARIABLES
  pc,           \* where on_approved_send_qr (or the validator run) stands
  cfg,          \* the environment: OPENAI_API_KEY set, models, retry count
  src,          \* store.get(status_msg_id)["src"]: <<>> or the bound source
  file,         \* the downloaded document
  st,           \* the payment-code string
  fields,       \* the fields of the kept attempt
  notes,        \* the notes of the kept attempt: a set of remarks
  err_code,     \* the reason code, <<>> for none
  retries_left,
  calls,        \* the requests sent to the model so far and what each returned
  attempts,     \* what each attempt so far produced
  qr_encoded,   \* the strings passed to _qr_png_bytes so far
  sent,         \* the photos sent to the chat so far
  exc,          \* the exception that escaped on_approved_send_qr, "" for none
  v_segs,       \* validator run: the segments the input string was made of
  raw,          \* encoder run: the field map (or InvoiceFields) given as input
  arg,          \* run of a pure function: its argument
  ret,          \* run of a pure function: what it returned or raised
  program,      \* which bot runs: "moderation" (with store.py) or "main_web"
  ADMIN_USER_IDS,   \* the user ids of the environment variable of that name
  invoices,     \* store.invoices: status_msg_id -> record
  WAITING_REASON,   \* moderation.WAITING_REASON: user id -> (chat_id, status_msg_id)
  INVOICES,     \* main_web.INVOICES: (chat_id, message_id) -> record
  last,         \* the update handled last, and by which handler
  runs,         \* the invocations of on_approved_send_qr under way, by status_msg_id
  shown,        \* the buttons rendered so far on each status message (they stay pressable)
  asked,        \* user id -> the status message of that user's latest reason press, until their next text
  ENV,          \* main_web_v2.ENV: WEBHOOK_SECRET, ALLOWED_CHAT_ID, ALLOWED_TOPIC_ID
  PENDING,      \* main_web_v2.PENDING: token -> the context of the file awaiting confirmation
  RESULTS,      \* main_web_v2.RESULTS: token -> the payment data built for it
  reqs,         \* main_web_v2: the webhook requests being served, one thread each
  journal       \* main_web_v2: what has happened for each token so far

v2Vars == <<ENV, PENDING, RESULTS, reqs, journal>>
botVars == <<program, ADMIN_USER_IDS, invoices, WAITING_REASON, INVOICES, last, runs, shown, asked, v2Vars>>
NoUpdate == [handler |-> "none", user |-> 0, text |-> <<>>]
NoEnv == [WEBHOOK_SECRET |-> <<>>, ALLOWED_CHAT_ID |-> <<>>, ALLOWED_TOPIC_ID |-> <<>>]
V2Idle ==
  /\ ENV = NoEnv
  /\ PENDING = <<>> /\ RESULTS = <<>>
  /\ reqs = <<>> /\ journal = <<>>
BotIdle ==
  /\ program = "none" /\ ADMIN_USER_IDS = {}
  /\ invoices = <<>> /\ WAITING_REASON = <<>> /\ INVOICES = <<>>
  /\ last = NoUpdate
  /\ runs = <<>>
  /\ shown = <<>> /\ asked = <<>>
  /\ V2Idle

vars == <<pc, cfg, src, file, st, fields, notes, err_code, retries_left, calls, attempts,
          qr_encoded, sent, exc, v_segs, raw, arg, ret, botVars>>

NoFile == File("none", FALSE, <<>>, 0, <<>>, <<>>)

Init ==
  /\ pc = "start"
  /\ cfg \in [api_key : BOOLEAN, distinct_models : BOOLEAN, MAX_RETRY_ON_FAIL : 0..MaxRetryCfg]
  /\ src \in {<<>>} \cup {<<f>> : f \in Files}
  /\ file = NoFile
  /\ st = <<>> /\ fields = NoFields /\ notes = {} /\ err_code = <<>>
  /\ retries_left = 0
  /\ calls = <<>> /\ attempts = <<>> /\ qr_encoded = <<>> /\ sent = <<>>
  /\ exc = ""
  /\ v_segs = <<>>
  /\ raw = NoFields
  /\ arg = <<>> /\ ret = <<>>
  /\ BotIdle

(***************************************************************************)
(* on_approved_send_qr, one action per stretch of its code.                *)
(***************************************************************************)
\* lines 509-517: no record or no source bound: log and return
Begin ==
  /\ pc = "start"
  /\ pc' = IF src = <<>> THEN "returned" ELSE "get_file"
  /\ UNCHANGED <<cfg, src, file, st, fields, notes, err_code, retries_left, calls, attempts,
                 qr_encoded, sent, exc, v_segs, raw, arg, ret, botVars>>

\* lines 519-521: get_file and download_as_bytearray, outside any try
Download ==
  /\ pc = "get_file"
  /\ \E ok \in BOOLEAN :
       IF ok THEN /\ file' = src[1] /\ pc' = "first" /\ exc' = exc
       ELSE /\ file' = file /\ pc' = "raised" /\ exc' = "TelegramError"
  /\ UNCHANGED <<cfg, src, st, fields, notes, err_code, retries_left, calls, attempts,
                 qr_encoded, sent, v_segs, raw, arg, ret, botVars>>

\* One call of _call_gpt_on_file with `model` and what follows it up to the
\* validation.  _client() raises when OPENAI_API_KEY is not set.
CallRecord(model, got) == [model |-> model, request |-> Request(file), got |-> got]
CallsAfter(model, got) ==
  IF Request(file).kind = "none" THEN calls ELSE Append(calls, CallRecord(model, got))

RetryBudget_AnyModel == cfg.MAX_RETRY_ON_FAIL

\* line 556: retries_left = MAX_RETRY_ON_FAIL if GPT_MODEL != RETRY_MODEL else 0
RetryBudget == IF cfg.distinct_models THEN cfg.MAX_RETRY_ON_FAIL ELSE 0

\* lines 523-556
FirstAttempt ==
  /\ pc = "first"
  /\ IF ~cfg.api_key
     THEN /\ pc' = "raised" /\ exc' = "RuntimeError"
          /\ UNCHANGED <<st, fields, notes, err_code, retries_left, calls, attempts>>
     ELSE \E reply \in Replies :
            LET got == _call_gpt_on_file(file, reply)
                a == Attempt(got)
            IN  /\ calls' = CallsAfter("GPT_MODEL", got)
                /\ IF a.raises
                   THEN /\ pc' = "raised" /\ exc' = "AttributeError"
                        /\ UNCHANGED <<st, fields, notes, err_code, retries_left, attempts>>
                   ELSE /\ st' = a.st /\ fields' = a.fields /\ notes' = a.notes
                        /\ err_code' = a.err
                        /\ attempts' = Append(attempts, a)
                        /\ retries_left' = RetryBudget
                        /\ pc' = "loop" /\ exc' = exc
  /\ UNCHANGED <<cfg, src, file, qr_encoded, sent, v_segs, raw, arg, ret, botVars>>

\* line 572: the new attempt replaces the kept one
Better(a) ==
  \/ a.err = <<>>
  \/ /\ a.st # <<>> /\ Truthy(a.fields)
     /\ PreviewLen(_fields_preview(a.fields)) > PreviewLen(_fields_preview(fields))

\* lines 557-574: one turn of the retry loop
RetryAttempt ==
  /\ pc = "loop"
  /\ err_code # <<>> /\ retries_left > 0
  /\ retries_left' = retries_left - 1
  /\ \E reply \in Replies :
       LET got == _call_gpt_on_file(file, reply)
           a == Attempt(got)
       IN  /\ calls' = CallsAfter("RETRY_MODEL", got)
           /\ IF a.raises
              THEN /\ pc' = "raised" /\ exc' = "AttributeError"
                   /\ UNCHANGED <<st, fields, notes, err_code, attempts>>
              ELSE /\ attempts' = Append(attempts, a)
                   /\ exc' = exc
                   /\ IF Better(a)
                      THEN /\ st' = a.st /\ fields' = a.fields /\ notes' = a.notes
                           /\ err_code' = a.err
                           /\ pc' = "outcome"
                      ELSE /\ UNCHANGED <<st, fields, notes, err_code>>
                           /\ pc' = "loop"
  /\ UNCHANGED <<cfg, src, file, qr_encoded, sent, v_segs, raw, arg, ret, botVars>>

\* line 557: the loop condition is false
LeaveLoop ==
  /\ pc = "loop"
  /\ ~(err_code # <<>> /\ retries_left > 0)
  /\ pc' = "outcome"
  /\ UNCHANGED <<cfg, src, file, st, fields, notes, err_code, retries_left, calls, attempts,
                 qr_encoded, sent, exc, v_segs, raw, arg, ret, botVars>>

\* _caption_from_fields
_caption_from_fields(f, n) ==
  [kind |-> "qr", name |-> Get(f, "Name"), sum |-> Get(f, "Sum"),
   purpose |-> Get(f, "Purpose"), inn |-> Get(f, "PayeeINN"), kpp |-> Get(f, "KPP"),
   notes |-> n]

\* lines 577-590: the QR of the validated string is made and sent; an
\* exception of either step is caught and becomes the reason code
SendQr ==
  /\ pc = "outcome"
  /\ err_code = <<>> /\ st # <<>> /\ Truthy(fields)
  /\ \E result \in {"ok", "qr_error", "send_error"} :
       /\ qr_encoded' = Append(qr_encoded, st)
       /\ IF result = "ok"
          THEN /\ sent' = Append(sent, [photo |-> st, caption |-> _caption_from_fields(fields, notes)])
               /\ pc' = "done"
               /\ err_code' = err_code
          ELSE /\ sent' = sent
               /\ pc' = "fallback"
               /\ err_code' = <<"QR could not be generated">>
  /\ UNCHANGED <<cfg, src, file, st, fields, notes, retries_left, calls, attempts, exc, v_segs, raw, arg, ret, botVars>>

\* lines 592-611: the fallback message, sent outside any try
SendFallback ==
  /\ \/ pc = "fallback"
     \/ pc = "outcome" /\ ~(err_code = <<>> /\ st # <<>> /\ Truthy(fields))
  /\ \E result \in {"ok", "qr_error", "send_error"} :
       /\ qr_encoded' = Append(qr_encoded, demo_payload)
       /\ IF result = "ok"
          THEN /\ sent' = Append(sent, [photo |-> demo_payload,
                                        caption |-> [kind |-> "fallback",
                                                     reason |-> _reason_human(err_code),
                                                     preview |-> _fields_preview(fields)]])
               /\ pc' = "done" /\ exc' = exc
          ELSE /\ sent' = sent
               /\ pc' = "raised"
               /\ exc' = IF result = "qr_error" THEN "QrError" ELSE "TelegramError"
  /\ UNCHANGED <<cfg, src, file, st, fields, notes, err_code, retries_left, calls, attempts,
                 v_segs, raw, arg, ret, botVars>>

Next ==
  \/ Begin
  \/ Download
  \/ FirstAttempt
  \/ RetryAttempt
  \/ LeaveLoop
  \/ SendQr
  \/ SendFallback

Spec == Init /\ [][Next]_vars

(***************************************************************************)
(* _validate_st00012 on its own: the input string is written from a list   *)
(* of segments, each [key, val, eq]: key=val when eq, else the bare key.   *)
(***************************************************************************)
\* at most MaxJunk segments without "=" follow the tag
MaxJunk == 1

Seg(k, v) == [key |-> KeyChars(k), val |-> v, eq |-> TRUE]
Junk == [key |-> <<"j", "u", "n", "k">>, val |-> <<>>, eq |-> FALSE]
Render(seg) == IF seg.eq THEN seg.key \o <<"=">> \o seg.val ELSE seg.key

\* Values with a wrong digit count, and values whose digits are right in
\* number but stand among other characters.
BIC_Short == SubSeq(GoodBIC, 1, BIC_LEN - 1)
BIC_Long == GoodBIC \o <<"7">>
BIC_Hyphen == <<"0", "4", "-">> \o SubSeq(GoodBIC, 3, BIC_LEN)
Acc_Short == SubSeq(GoodAcc, 1, ACC_LEN - 1)
Acc_Spaced == SubSeq(GoodAcc, 1, 5) \o <<" ">> \o SubSeq(GoodAcc, 6, ACC_LEN)
Corr_Long == GoodCorr \o <<"0">>
Sum_Negative == <<"-", "5", "0", "0">>
Sum_Decimal == <<"1", "7", ".", "9", "5">>
Sum_Zero == <<"0">>

\* Every required key is absent or well-formed; Name and Purpose may also be
\* empty or blank; BIC and Sum may also be empty; BIC, the accounts and Sum
\* may also be ill-formed.
SegChoices(k) ==
  LET base == {<<>>, <<Seg(k, FullVals[k])>>}
      blanks == {<<Seg(k, <<>>)>>, <<Seg(k, <<" ", NBSP>>)>>}
  IN  CASE k \in {"Name", "Purpose"} -> base \cup blanks
        [] k = "BIC" -> base \cup {<<Seg(k, <<>>)>>}
                          \cup {<<Seg(k, v)>> : v \in {BIC_Short, BIC_Long, BIC_Hyphen}}
        [] k = "Sum" -> base \cup {<<Seg(k, <<>>)>>}
                          \cup {<<Seg(k, v)>> : v \in {Sum_Negative, Sum_Decimal, Sum_Zero}}
        [] k = "PersonalAcc" -> base \cup {<<Seg(k, v)>> : v \in {Acc_Short, Acc_Spaced}}
        [] k = "CorrespAcc" -> base \cup {<<Seg(k, Corr_Long)>>}
        [] OTHER -> base

\* A repeated key at the end: the dict keeps the last value.
Trailers == {<<>>, <<Seg("Name", <<" ">>)>>, <<Seg("Name", <<"Z">>)>>}

SegLists ==
  { Rep(Junk, j) \o a \o b \o c \o d \o e \o f \o g \o t :
      j \in 0..MaxJunk,
      a \in SegChoices("Name"), b \in SegChoices("PersonalAcc"), c \in SegChoices("BankName"),
      d \in SegChoices("BIC"), e \in SegChoices("CorrespAcc"), f \in SegChoices("Sum"),
      g \in SegChoices("Purpose"), t \in Trailers }

Written(segs) == TagSep \o Join([i \in 1..Len(segs) |-> Render(segs[i])], <<"|">>)

\* Strings that do not begin with "ST00012|": what stands in the place of
\* the tag, followed by the segments of a body.
BadPrefixes ==
  { <<>>, FormatTag, FormatTag \o <<"=">>, <<" ">> \o TagSep, <<"|">> \o TagSep,
    <<"s", "t", "0", "0", "0", "1", "2", "|">>, <<"S", "T", "0", "0", "0", "1", "3", "|">> }
FullSegs == [i \in 1..Len(ST00012_REQUIRED) |-> Seg(ST00012_REQUIRED[i], FullVals[ST00012_REQUIRED[i]])]
UntaggedBodies == {<<>>, FullSegs, Tail(FullSegs), <<Junk>>}
Untagged(segs) == {p \o Join([i \in 1..Len(segs) |-> Render(segs[i])], <<"|">>) : p \in BadPrefixes}

InitValidate ==
  /\ pc = "v_input"
  /\ \/ v_segs \in SegLists /\ st = Written(v_segs)
     \/ v_segs \in UntaggedBodies /\ st \in Untagged(v_segs)
  /\ cfg = [api_key |-> TRUE, distinct_models |-> TRUE, MAX_RETRY_ON_FAIL |-> 0]
  /\ src = <<>> /\ file = NoFile
  /\ fields = NoFields /\ notes = {} /\ err_code = <<>>
  /\ retries_left = 0
  /\ calls = <<>> /\ attempts = <<>> /\ qr_encoded = <<>> /\ sent = <<>>
  /\ exc = ""
  /\ raw = NoFields
  /\ arg = <<>> /\ ret = <<>>
  /\ BotIdle

Validate ==
  /\ pc = "v_input"
  /\ err_code' = _validate_st00012(st)
  /\ pc' = "v_done"
  /\ UNCHANGED <<cfg, src, file, st, fields, notes, retries_left, calls, attempts,
                 qr_encoded, sent, exc, v_segs, raw, arg, ret, botVars>>

NextValidate == Validate

SpecValidate == InitValidate /\ [][NextValidate]_vars

(***************************************************************************)
(* The encoders on their own.  A field map goes through _sanitize_fields   *)
(* (once, or twice), _build_st00012_from_fields and _validate_st00012; an  *)
(* InvoiceFields goes through its to_st00012 (main_web_v2.py).             *)
(***************************************************************************)
\* "Без НДС", one Latin letter for each Cyrillic one
NoVatText == <<"B", "e", "z", " ", "N", "D", "S">>

\* add(k, v) of to_st00012: nothing for an empty value, else k=v with "|",
\* "\n", "\r" replaced by a space and the result stripped
Add(k, v) ==
  IF v = <<>> THEN <<>>
  ELSE <<Segment(k, Strip(ReplaceChar(ReplaceChar(ReplaceChar(v, "|", " "), "\n", " "), "\r", " ")))>>

\* InvoiceFields.to_st00012; Sum is an int
to_st00012(inv) ==
  Join(<<FormatTag>>
         \o Add("Name", inv.Name) \o Add("PersonalAcc", inv.PersonalAcc)
         \o Add("BankName", inv.BankName) \o Add("BIC", inv.BIC)
         \o Add("CorrespAcc", inv.CorrespAcc) \o Add("PayeeINN", inv.PayeeINN)
         \o Add("KPP", inv.KPP)
         \o (IF inv.Sum # 0 /\ inv.Sum > 0 THEN Add("Sum", ToStr(inv.Sum)) ELSE <<>>)
         \o Add("Purpose", IF inv.Purpose # <<>> THEN inv.Purpose ELSE NoVatText),
       <<"|">>)

GoodINN == <<"7", "7", "0", "1", "2", "3", "4", "5", "6", "7">>
GoodKPP == <<"7", "7", "0", "1", "0", "1", "0", "0", "1">>
OcrKPP == <<"7", "7", "O", "l", "O", "l", "O", "O", "l">>

RawNames ==
  { FullVals["Name"], <<" ", "LAQUO", "A", "RAQUO", " ", NBSP, "\t", "B", "\n">>, <<"A", "|", "B">> }
RawPurposes ==
  { FullVals["Purpose"], <<"a", "|", "b">>, <<>>,
    <<" ", "p", "a", "y", "\r", "\n", "f", "o", "r", " ", " ", " ", "LAQUO", "x", "RAQUO", NBSP>> }
RawSums == {GoodSum, Sum_Spaced, Sum_Negative, <<"n", "/", "a">>}
WithOptional(vals, k, opt) ==
  IF opt = <<>> THEN vals ELSE [j \in DOMAIN vals \cup {k} |-> IF j = k THEN opt[1] ELSE vals[j]]

\* The field maps given to the sanitizer: every required key with a plain
\* value or one that needs cleaning; PayeeINN and KPP absent, empty or
\* set; Sum a string or a JSON number.
RawFieldMaps ==
  { [vals |-> WithOptional(WithOptional(
                 [k \in RequiredKeys |->
                    CASE k = "Name" -> n [] k = "Purpose" -> p [] k = "BIC" -> b
                      [] k = "Sum" -> s [] k = "PersonalAcc" -> a [] OTHER -> FullVals[k]],
                 "PayeeINN", inn), "KPP", kpp),
     ints |-> i] :
      n \in RawNames, p \in RawPurposes, b \in {GoodBIC, OcrBIC, BIC_Hyphen}, s \in RawSums,
      a \in {GoodAcc, Acc_Spaced}, inn \in {<<>>, <<<<>>>>, <<GoodINN>>},
      kpp \in {<<>>, <<OcrKPP>>}, i \in {{}, {"Sum"}} }

\* The InvoiceFields process_document encodes (main_web_v2.py, line 374:
\* PersonalAcc, BIC, PayeeINN and Sum are not empty); Name is the default
\* name, "Получатель".
Invoices ==
  [ Name : {<<"P", "o", "l", "u", "c", "h", "a", "t", "e", "l">>},
    PersonalAcc : {GoodAcc}, BankName : {<<>>, FullVals["BankName"]}, BIC : {GoodBIC},
    CorrespAcc : {<<>>, GoodCorr}, PayeeINN : {GoodINN}, KPP : {<<>>, GoodKPP},
    Sum : {1, ToInt(GoodSum)}, Purpose : {<<>>, FullVals["Purpose"], <<"a", "|", "b">>} ]

InitEncode ==
  /\ \/ pc = "e_raw" /\ raw \in RawFieldMaps
     \/ pc = "i_raw" /\ raw \in Invoices
  /\ cfg = [api_key |-> TRUE, distinct_models |-> TRUE, MAX_RETRY_ON_FAIL |-> 0]
  /\ src = <<>> /\ file = NoFile
  /\ st = <<>> /\ fields = NoFields /\ notes = {} /\ err_code = <<>>
  /\ retries_left = 0
  /\ calls = <<>> /\ attempts = <<>> /\ qr_encoded = <<>> /\ sent = <<>>
  /\ exc = ""
  /\ v_segs = <<>>
  /\ arg = <<>> /\ ret = <<>>
  /\ BotIdle

Sanitize ==
  /\ pc = "e_raw"
  /\ fields' = _sanitize_fields(raw)
  /\ pc' = "e_clean"
  /\ UNCHANGED <<cfg, src, file, st, notes, err_code, retries_left, calls, attempts,
                 qr_encoded, sent, exc, v_segs, raw, arg, ret, botVars>>

\* _sanitize_fields applied to its own result
SanitizeAgain ==
  /\ pc = "e_clean"
  /\ fields' = _sanitize_fields(fields)
  /\ pc' = "e_clean2"
  /\ UNCHANGED <<cfg, src, file, st, notes, err_code, retries_left, calls, attempts,
                 qr_encoded, sent, exc, v_segs, raw, arg, ret, botVars>>

Build ==
  /\ pc \in {"e_clean", "e_clean2"}
  /\ st' = _build_st00012_from_fields(fields)
  /\ pc' = "e_built"
  /\ UNCHANGED <<cfg, src, file, fields, notes, err_code, retries_left, calls, attempts,
                 qr_encoded, sent, exc, v_segs, raw, arg, ret, botVars>>

ValidateBuilt ==
  /\ pc = "e_built"
  /\ err_code' = _validate_st00012(st)
  /\ pc' = "e_done"
  /\ UNCHANGED <<cfg, src, file, st, fields, notes, retries_left, calls, attempts,
                 qr_encoded, sent, exc, v_segs, raw, arg, ret, botVars>>

ToSt00012 ==
  /\ pc = "i_raw"
  /\ st' = to_st00012(raw)
  /\ pc' = "i_built"
  /\ UNCHANGED <<cfg, src, file, fields, notes, err_code, retries_left, calls, attempts,
                 qr_encoded, sent, exc, v_segs, raw, arg, ret, botVars>>

NextEncode ==
  \/ Sanitize
  \/ SanitizeAgain
  \/ Build
  \/ ValidateBuilt
  \/ ToSt00012

SpecEncode == InitEncode /\ [][NextEncode]_vars

(***************************************************************************)
(* _parse_json (lines 412-416).  The text of the model's response is a     *)
(* sequence of lexical tokens; a brace occurs only as the token "{" or     *)
(* "}", so str.find and str.rfind of a brace see the tokens as they would  *)
(* see the characters.                                                     *)
(***************************************************************************)
JsonWS == {" ", "\n"}
\* three backticks, the fence of a code block
FENCE == "FENCE"
JsonStrings == {"\"st\"", "\"fields\"", "\"x\""}

\* str.rfind + 1: the index of the last c in s, 0 when there is none.
LastIndexOf(s, c) ==
  IF \E i \in 1..Len(s) : s[i] = c
  THEN CHOOSE i \in 1..Len(s) : s[i] = c /\ \A j \in (i + 1)..Len(s) : s[j] # c
  ELSE 0

\* json.loads, the grammar: a value is a string or an object; ValueEnd is
\* the index after the value that begins at i, 0 when none begins there.
RECURSIVE ValueEnd(_, _), MembersEnd(_, _, _)
ValueEnd(s, i) ==
  IF i > Len(s) THEN 0
  ELSE IF s[i] \in JsonStrings THEN i + 1
  ELSE IF s[i] = "{" THEN MembersEnd(s, i + 1, TRUE)
  ELSE 0
MembersEnd(s, i, first) ==
  IF i > Len(s) THEN 0
  ELSE IF first /\ s[i] = "}" THEN i + 1
  ELSE IF s[i] \in JsonStrings /\ i + 1 <= Len(s) /\ s[i + 1] = ":"
  THEN LET j == ValueEnd(s, i + 2)
       IN  IF j = 0 \/ j > Len(s) THEN 0
           ELSE IF s[j] = "}" THEN j + 1
           ELSE IF s[j] = "," THEN MembersEnd(s, j + 1, FALSE)
           ELSE 0
  ELSE 0

\* the dict of an object: key -> tokens of its value, a later key winning
RECURSIVE Members(_, _)
Members(s, i) ==
  IF s[i] = "}" THEN <<>>
  ELSE LET j == ValueEnd(s, i + 2)
           rest == IF s[j] = "," THEN Members(s, j + 1) ELSE <<>>
       IN  [k \in DOMAIN rest \cup {s[i]} |->
              IF k \in DOMAIN rest THEN rest[k] ELSE SubSeq(s, i + 2, j - 1)]

\* json.loads(s) for an s that begins with "{"
json_loads(s) ==
  LET t == SelectSeq(s, LAMBDA c : c \notin JsonWS)
  IN  IF t # <<>> /\ ValueEnd(t, 1) = Len(t) + 1
      THEN [kind |-> "ok", data |-> Members(t, 2)]
      ELSE [kind |-> "JSONDecodeError", data |-> <<>>]

_parse_json(text) ==
  LET s == IndexOf(text, "{")
      e == LastIndexOf(text, "}")
  IN  IF s = 0 \/ e = 0 \/ e <= s
      THEN [kind |-> "ValueError", data |-> <<>>]
      ELSE json_loads(SubSeq(text, s, e))

\* Responses: prose or a code fence, an object (well-formed or not), and
\* what follows it; and responses without any object.
Preambles == { <<>>, <<"Here", " ", "it", " ", "is", "\n">>, <<FENCE, "json", "\n">> }
Objects ==
  { <<"{", "}">>,
    <<"{", "\"st\"", ":", "\"x\"", "}">>,
    <<"{", "\"st\"", ":", " ", "\"x\"", ",", "\n", "\"fields\"", ":", "{", "}", "}">>,
    <<"{", "\"st\"", ":", "\"x\"", ",", "\"fields\"", ":", "{", "\"x\"", ":", "\"x\"", "}", "}">>,
    <<"{", "\"x\"", ":", "\"st\"", ",", "\"x\"", ":", "\"x\"", "}">> }
Malformed ==
  { <<"{", "\"st\"", "\"x\"", "}">>,
    <<"{", "\"st\"", ":", "\"x\"", ",", "}">>,
    <<"{", "\"st\"", ":", "}">>,
    <<"{", "st", ":", "\"x\"", "}">> }
Epilogues ==
  { <<>>, <<"\n", FENCE>>, <<"\n", "Done", ".">>,
    <<" ", "(", "see", " ", "}", ")">>,
    <<"\n", "}">>,
    <<"\n", "or", " ", "{", "\"x\"", ":", "\"x\"", "}">>,
    <<"\n", "{", "brace">> }
NoObject == { <<>>, <<"Sorry", ".">>, <<"}", " ", "{">>, <<"{">>, <<"}">>, <<FENCE, "\n", FENCE>> }
ResponseTexts ==
  {a \o o \o z : a \in Preambles, o \in Objects \cup Malformed, z \in Epilogues} \cup NoObject

\* everything of on_approved_send_qr, at rest
ProcessorIdle ==
  /\ cfg = [api_key |-> TRUE, distinct_models |-> TRUE, MAX_RETRY_ON_FAIL |-> 0]
  /\ src = <<>> /\ file = NoFile
  /\ st = <<>> /\ fields = NoFields /\ notes = {} /\ err_code = <<>>
  /\ retries_left = 0
  /\ calls = <<>> /\ attempts = <<>> /\ qr_encoded = <<>> /\ sent = <<>>
  /\ exc = ""
  /\ v_segs = <<>> /\ raw = NoFields
processorVars == <<cfg, src, file, st, fields, notes, err_code, retries_left, calls, attempts,
                   qr_encoded, sent, exc, v_segs, raw>>

InitParse ==
  /\ pc = "p_text"
  /\ arg \in ResponseTexts /\ ret = <<>>
  /\ ProcessorIdle /\ BotIdle

\* line 498: data = _parse_json(raw)
ParseJson ==
  /\ pc = "p_text"
  /\ ret' = _parse_json(arg)
  /\ pc' = "p_done"
  /\ UNCHANGED <<arg, processorVars, botVars>>

NextParse == ParseJson

SpecParse == InitParse /\ [][NextParse]_vars

(***************************************************************************)
(* The text extractors (lines 124-251).  A byte string is described by     *)
(* its leading bytes and by what each library does with it: raise, or      *)
(* give a text.  A result is a returned text or an exception raised to     *)
(* the caller; _excel_to_text also records the strategies it went through. *)
(***************************************************************************)
ZIP_SIG == "PK0304"
OLE_SIG == "D0CF11E0A1B11AE1"
PDF_SIG == "%PDF"

Raises == [raises |-> TRUE, text |-> <<>>]
Gives(t) == [raises |-> FALSE, text |-> t]
Returned(t) == [kind |-> "returned", text |-> t, tried |-> <<>>]
RaisedToCaller == [kind |-> "raised", text |-> <<>>, tried |-> <<>>]

_is_pdf(b) == b.head = PDF_SIG
_is_xlsx_zip(b) == b.head = ZIP_SIG
_is_xls_ole(b) == b.head = OLE_SIG

CaughtOr_Reraise(o, dflt) == IF o.raises THEN RaisedToCaller ELSE Returned(o.text)

\* try: return <o>  except Exception: return <dflt>
CaughtOr(o, dflt) == IF o.raises THEN Returned(dflt) ELSE Returned(o.text)

\* lines 144-150: the pages whose extract_text raises are passed over, None
\* counts as "", NBSP becomes a space, the chunks are joined by newlines
PageChunks(pages) ==
  LET good == SelectSeq(pages, LAMBDA o : ~o.raises)
  IN  [i \in 1..Len(good) |-> ReplaceChar(good[i].text, NBSP, " ")]
_pdf_to_text(b) ==
  CaughtOr(IF b.reader_raises THEN Raises ELSE Gives(Join(PageChunks(b.pages), <<"\n">>)), <<>>)
_xls_to_text(b) == CaughtOr(b.xls, <<>>)
_xlsx_to_text(b) == CaughtOr(b.xlsx, <<>>)
_docx_to_text(b) == CaughtOr(b.docx, <<>>)

\* lines 214-223: the first encoding that decodes; latin-1 decodes anything
Decoded(b) ==
  LET text == IF ~b.utf8.raises THEN b.utf8.text
              ELSE IF ~b.cp1251.raises THEN b.cp1251.text
              ELSE b.latin1
  IN  IF text = <<>> THEN b.utf8_ignore ELSE text
\* lines 224-231: the rows the sniffed dialect gives, or the text as it is
_csv_like_to_text(b) == CaughtOr(b.sniff, Decoded(b))

Via(r, strategies) == [r EXCEPT !.tried = strategies]
_excel_to_text(b) ==
  LET x == _xlsx_to_text(b)
      l == _xls_to_text(b)
      zip == IF _is_xlsx_zip(b) THEN <<"xlsx">> ELSE <<>>
      ole == IF _is_xls_ole(b) THEN <<"xls">> ELSE <<>>
  IN  IF _is_xlsx_zip(b) /\ (x.kind = "raised" \/ x.text # <<>>) THEN Via(x, zip)
      ELSE IF _is_xls_ole(b) /\ (l.kind = "raised" \/ l.text # <<>>) THEN Via(l, zip \o ole)
      ELSE Via(_csv_like_to_text(b), zip \o ole \o <<"csv">>)

\* Byte strings.  A library reads only bytes of its own format: those of
\* another signature make it raise.
LibOutcomes == {Raises, Gives(<<>>), Gives(<<"t">>)}
PageOutcomes == {Raises, Gives(<<>>), Gives(<<"a">>), Gives(<<"a", NBSP, "b">>)}
MaxPages == 2
PageLists == UNION {[1..n -> PageOutcomes] : n \in 0..MaxPages}
Decodings ==
  { [utf8 |-> Gives(<<"u">>), cp1251 |-> Gives(<<"c">>)],
    [utf8 |-> Raises, cp1251 |-> Gives(<<"c">>)],
    [utf8 |-> Raises, cp1251 |-> Raises] }
Bytes(head_, xlsx_, xls_, docx_, reader_, pages_, dec, sniff_) ==
  [head |-> head_, xlsx |-> xlsx_, xls |-> xls_, docx |-> docx_,
   reader_raises |-> reader_, pages |-> pages_,
   utf8 |-> dec.utf8, cp1251 |-> dec.cp1251, latin1 |-> <<"l">>, utf8_ignore |-> <<"u">>,
   sniff |-> sniff_]
EmptyBytes ==
  [head |-> "", xlsx |-> Raises, xls |-> Raises, docx |-> Raises,
   reader_raises |-> TRUE, pages |-> <<>>,
   utf8 |-> Gives(<<>>), cp1251 |-> Gives(<<>>), latin1 |-> <<>>, utf8_ignore |-> <<>>,
   sniff |-> Raises]
ByteStrings ==
  {Bytes(ZIP_SIG, x, Raises, d, TRUE, <<>>, dec, sn) :
     x \in LibOutcomes, d \in {Raises, Gives(<<"t">>)}, dec \in Decodings, sn \in LibOutcomes}
  \cup {Bytes(OLE_SIG, Raises, l, Raises, TRUE, <<>>, dec, sn) :
     l \in LibOutcomes, dec \in Decodings, sn \in LibOutcomes}
  \cup {Bytes(PDF_SIG, Raises, Raises, Raises, FALSE, pp, CHOOSE dec \in Decodings : ~dec.utf8.raises, Raises) :
     pp \in PageLists}
  \cup {Bytes(PDF_SIG, Raises, Raises, Raises, TRUE, <<>>, CHOOSE dec \in Decodings : ~dec.utf8.raises, Raises)}
  \cup {Bytes("other", Raises, Raises, Raises, TRUE, <<>>, dec, sn) :
     dec \in Decodings, sn \in LibOutcomes}
  \cup {EmptyBytes}

Extractors ==
  {"_pdf_to_text", "_xlsx_to_text", "_xls_to_text", "_docx_to_text", "_csv_like_to_text",
   "_excel_to_text"}

InitExtract ==
  /\ pc = "x_bytes"
  /\ arg \in [fn : Extractors, b : ByteStrings] /\ ret = <<>>
  /\ ProcessorIdle /\ BotIdle

Extracted(fn, result) ==
  /\ pc = "x_bytes" /\ arg.fn = fn
  /\ ret' = result
  /\ pc' = "x_done"
  /\ UNCHANGED <<arg, processorVars, botVars>>

PdfToText == Extracted("_pdf_to_text", _pdf_to_text(arg.b))
XlsxToText == Extracted("_xlsx_to_text", _xlsx_to_text(arg.b))
XlsToText == Extracted("_xls_to_text", _xls_to_text(arg.b))
DocxToText == Extracted("_docx_to_text", _docx_to_text(arg.b))
CsvLikeToText == Extracted("_csv_like_to_text", _csv_like_to_text(arg.b))
ExcelToText == Extracted("_excel_to_text", _excel_to_text(arg.b))

NextExtract ==
  \/ PdfToText
  \/ XlsxToText
  \/ XlsToText
  \/ DocxToText
  \/ CsvLikeToText
  \/ ExcelToText

SpecExtract == InitExtract /\ [][NextExtract]_vars

(***************************************************************************)
(* store.py: the in-memory store of invoices, keyed by the id of the       *)
(* status message.  None and "" are <<>>.                                  *)
(***************************************************************************)
WAIT == "WAIT"
APPROVED == "APPROVED"
REJECTED == "REJECTED"
PAID == "PAID"
RECEIVED == "RECEIVED"

Record(status_, kind_) == [status |-> status_, reason |-> <<>>, kind |-> kind_, src |-> <<>>]
\* d[k] = v
Put(d, k, v) == [x \in DOMAIN d \cup {k} |-> IF x = k THEN v ELSE d[x]]
Pop_Keep(d, k) == d

\* d.pop(k, None)
Pop(d, k) == [x \in DOMAIN d \ {k} |-> d[x]]
\* d.setdefault(k, v), the dict afterwards
SetDefault(d, k, v) == IF k \in DOMAIN d THEN d ELSE Put(d, k, v)

create(d, status_msg_id, kind) == Put(d, status_msg_id, Record(WAIT, kind))
set_status_Fresh(d, status_msg_id, status) == Put(d, status_msg_id, Record(status, "unknown"))

set_status(d, status_msg_id, status) ==
  [SetDefault(d, status_msg_id, Record(WAIT, "unknown")) EXCEPT ![status_msg_id].status = status]
set_reason(d, status_msg_id, reason) ==
  [SetDefault(d, status_msg_id, Record(REJECTED, "unknown")) EXCEPT ![status_msg_id].reason = Strip(reason)]
set_source(d, status_msg_id, source) ==
  [SetDefault(d, status_msg_id, Record(WAIT, "unknown")) EXCEPT ![status_msg_id].src = <<source>>]
get_First(d, status_msg_id) ==
  IF d = <<>> THEN <<>> ELSE <<d[CHOOSE k \in DOMAIN d : \A j \in DOMAIN d : k <= j]>>

\* store.get: <<>> for None, else <<record>>
get(d, status_msg_id) == IF status_msg_id \in DOMAIN d THEN <<d[status_msg_id]>> ELSE <<>>

(***************************************************************************)
(* The two bots.  moderation.py works on the store and WAITING_REASON;     *)
(* main_web.py is a program of its own with its INVOICES.  In each         *)
(* handler the changes of state lie in one stretch without an await, so    *)
(* a handler is one step whatever the interleaving of updates.             *)
(***************************************************************************)
CHAT == 100
MsgIds == {1, 2}
\* a message id that is not one of MsgIds
OtherMsgId == 3
MaxUserId == 2
Users == 1..MaxUserId
ReasonTexts == { <<>>, <<" ", "l", "a", "t", "e", " ">> }
SourceOf(id) ==
  [chat_id |-> CHAT, thread_id |-> 10 * id, user_msg_id |-> 100 + id,
   file_id |-> id, file_type |-> IF id = 1 THEN "photo" ELSE "document"]

\* ADMIN_USER_IDS unset, or the first n users (the users differ in nothing
\* but their id)
AdminSets == {1..n : n \in 0..MaxUserId}
InitBot ==
  /\ pc = "bot"
  /\ program \in {"moderation", "main_web"}
  /\ ADMIN_USER_IDS \in AdminSets
  /\ invoices = <<>> /\ WAITING_REASON = <<>> /\ INVOICES = <<>>
  /\ last = NoUpdate
  /\ runs = <<>>
  /\ shown = <<>> /\ asked = <<>>
  /\ V2Idle
  /\ arg = <<>> /\ ret = <<>>
  /\ ProcessorIdle

HandledText(handler_, user_, text_) == last' = [handler |-> handler_, user |-> user_, text |-> text_]
Handled(handler_, user_) == HandledText(handler_, user_, <<>>)

\* keyboards.moderation_keyboard (lines 12-39): the callback actions of the
\* buttons offered for the status of the record
moderation_keyboard(d, status_msg_id) ==
  LET inv == get(d, status_msg_id)
      status == IF inv = <<>> THEN WAIT ELSE inv[1].status
  IN  CASE status = WAIT -> {"approve", "reject"}
        [] status = APPROVED -> {"paid"}
        [] status = REJECTED -> {"reason"}
        [] status = PAID -> {"received"}
        [] OTHER -> {}
\* the status message is sent or edited with the keyboard of d; a client
\* that has not taken the edit yet, or a second one, still offers the
\* buttons it had
ShownOn(status_msg_id) == IF status_msg_id \in DOMAIN shown THEN shown[status_msg_id] ELSE {}
Rendered(d, status_msg_id) ==
  Put(shown, status_msg_id, ShownOn(status_msg_id) \cup moderation_keyboard(d, status_msg_id))
\* the kind a caller gives to store.create: one for each invoice
KindOf(id) == IF id = 1 THEN "pdf" ELSE "unknown"
botFrame == <<pc, arg, ret, processorVars, program, ADMIN_USER_IDS, runs, v2Vars>>

\* the caller's bookkeeping for a new status message: store.create and
\* store.set_source
CreateInvoice ==
  /\ pc = "bot" /\ program = "moderation"
  /\ \E id \in MsgIds \ DOMAIN invoices :
       /\ invoices' = create(invoices, id, KindOf(id))
       /\ shown' = Rendered(invoices', id)
  /\ Handled("create", 0)
  /\ UNCHANGED <<botFrame, WAITING_REASON, INVOICES, asked>>
BindSource ==
  /\ pc = "bot" /\ program = "moderation"
  /\ \E id \in DOMAIN invoices :
       /\ invoices[id].src = <<>>
       /\ invoices' = set_source(invoices, id, SourceOf(id))
  /\ Handled("set_source", 0)
  /\ UNCHANGED <<botFrame, WAITING_REASON, INVOICES, shown, asked>>

Allowed_Anyone(user_id) == TRUE

\* lines 47-49: not (ADMIN_USER_IDS and user_id not in ADMIN_USER_IDS)
Allowed(user_id) == ADMIN_USER_IDS = {} \/ user_id \in ADMIN_USER_IDS

ModerationActions == {"approve", "reject", "reason", "paid", "received", "other"}
StatusFor(action) ==
  CASE action = "approve" -> APPROVED
    [] action = "reject" -> REJECTED
    [] action = "paid" -> PAID
    [] action = "received" -> RECEIVED

\* moderation.handle_moderation (lines 40-78): a press of a button with
\* callback data action:... on the status message status_msg_id
handle_moderation_by(user_id, action, status_msg_id) ==
  /\ pc = "bot" /\ program = "moderation"
  /\ Handled("handle_moderation", user_id)
  /\ IF ~Allowed(user_id) \/ action = "other"
     THEN UNCHANGED <<invoices, WAITING_REASON, shown, asked>>
     ELSE IF action = "reason"
     THEN /\ WAITING_REASON' = Put(WAITING_REASON, user_id, <<CHAT, status_msg_id>>)
          /\ asked' = Put(asked, user_id, status_msg_id)
          /\ UNCHANGED <<invoices, shown>>
     ELSE /\ invoices' = set_status(invoices, status_msg_id, StatusFor(action))
          /\ shown' = Rendered(invoices', status_msg_id)
          /\ UNCHANGED <<WAITING_REASON, asked>>
  /\ UNCHANGED <<botFrame, INVOICES>>
\* a press reaches the handler from a button that has been rendered on the
\* message, a stale one included, or from a button of another keyboard
handle_moderation ==
  \E user_id \in Users, status_msg_id \in MsgIds :
    \E action \in ShownOn(status_msg_id) \cup {"other"} :
      handle_moderation_by(user_id, action, status_msg_id)

\* moderation.handle_reason_message (lines 81-103): a text message
handle_reason_message ==
  /\ pc = "bot" /\ program = "moderation"
  /\ \E user_id \in Users, text \in ReasonTexts :
       /\ HandledText("handle_reason_message", user_id, text)
       /\ asked' = [u \in DOMAIN asked \ {user_id} |-> asked[u]]
       /\ IF user_id \notin DOMAIN WAITING_REASON
          THEN UNCHANGED <<invoices, WAITING_REASON, shown>>
          ELSE /\ invoices' = set_reason(invoices, WAITING_REASON[user_id][2], Strip(text))
               /\ WAITING_REASON' = Pop(WAITING_REASON, user_id)
               /\ shown' = Rendered(invoices', WAITING_REASON[user_id][2])
  /\ UNCHANGED <<botFrame, INVOICES>>

STATUS_WAIT == "STATUS_WAIT"
STATUS_OK == "STATUS_OK"
STATUS_REJ == "STATUS_REJ"

\* main_web.handle_file_message (lines 164-196): a file in a chat; the
\* reply that carries the buttons may fail, and then the record is left
\* without status_msg_id
handle_file_message ==
  /\ pc = "bot" /\ program = "main_web"
  /\ \E user_id \in Users, message_id \in MsgIds, replied \in BOOLEAN :
       /\ Handled("handle_file_message", user_id)
       /\ INVOICES' = Put(INVOICES, <<CHAT, message_id>>,
                          [status |-> STATUS_WAIT, kind |-> "pdf",
                           status_msg_id |-> IF replied THEN message_id + 10 ELSE 0])
  /\ UNCHANGED <<botFrame, invoices, WAITING_REASON, shown, asked>>

\* callback data, split at ":": the action and the decimal texts of the
\* chat id and the message id; int() fails on "x"
CallbackData ==
  {<<a, ToStr(CHAT), ToStr(m)>> : a \in {"approve", "reject", "other"}, m \in MsgIds \cup {OtherMsgId}}
  \cup { <<"approve">>, <<"approve", <<"x">>, ToStr(1)>>, <<"reject", ToStr(CHAT), ToStr(1), ToStr(1)>> }

\* main_web.on_callback (lines 115-161): a press of a button
on_callback ==
  /\ pc = "bot" /\ program = "main_web"
  /\ \E user_id \in Users, parts \in CallbackData :
       /\ Handled("on_callback", user_id)
       /\ IF /\ Allowed(user_id)
             /\ Len(parts) = 3 /\ IsDigitStr(parts[2]) /\ IsDigitStr(parts[3])
             /\ <<ToInt(parts[2]), ToInt(parts[3])>> \in DOMAIN INVOICES
             /\ parts[1] \in {"approve", "reject"}
          THEN INVOICES' = [INVOICES EXCEPT ![<<ToInt(parts[2]), ToInt(parts[3])>>].status =
                              IF parts[1] = "approve" THEN STATUS_OK ELSE STATUS_REJ]
          ELSE UNCHANGED INVOICES
  /\ UNCHANGED <<botFrame, invoices, WAITING_REASON, shown, asked>>

NextBot ==
  \/ CreateInvoice
  \/ BindSource
  \/ handle_moderation
  \/ handle_reason_message
  \/ handle_file_message
  \/ on_callback

SpecBot == InitBot /\ [][NextBot]_vars

(***************************************************************************)
(* Invocations of on_approved_send_qr that run side by side (lines         *)
(* 508-611), one for each approved invoice.  An invocation gives way to    *)
(* other coroutines only at its awaits of get_file, download_as_bytearray  *)
(* and send_photo: _call_gpt_on_file has no await inside, so the calls of  *)
(* the model and the retry loop are one step with the download's end.      *)
(***************************************************************************)
\* line 572, for a kept attempt given as a parameter
BetterThan(a, kept_fields) ==
  \/ a.err = <<>>
  \/ /\ a.st # <<>> /\ Truthy(a.fields)
     /\ PreviewLen(_fields_preview(a.fields)) > PreviewLen(_fields_preview(kept_fields))

\* lines 557-574: the attempt kept after the retries, the loop's replies given
RECURSIVE Retried(_, _, _, _)
Retried(f, kept, replies, left) ==
  IF kept.err = <<>> \/ left = 0 \/ replies = <<>> THEN kept
  ELSE LET a == Attempt(_call_gpt_on_file(f, Head(replies)))
       IN  IF a.raises \/ BetterThan(a, kept.fields) THEN a
           ELSE Retried(f, kept, Tail(replies), left - 1)
\* lines 536-574 with MAX_RETRY_ON_FAIL at its default and two models
DEFAULT_RETRIES == 1
KeptOf(f, replies) ==
  LET a == Attempt(_call_gpt_on_file(f, Head(replies)))
  IN  IF a.raises THEN a ELSE Retried(f, a, Tail(replies), DEFAULT_RETRIES)
Succeeded(kept) == kept.err = <<>> /\ kept.st # <<>> /\ Truthy(kept.fields)

\* what the model answers in these runs, and the replies one run consumes
ConcurrentReplies ==
  { JsonReply(<<>>, F_full, {"note A"}), JsonReply(<<>>, F_noBIC, {"note B"}), Failure("gpt_error") }
ReplySeqs(f) ==
  {<<r>> : r \in {x \in ConcurrentReplies : LET a == Attempt(_call_gpt_on_file(f, x))
                                            IN a.raises \/ a.err = <<>>}}
  \cup {<<r, r2>> : r \in {x \in ConcurrentReplies : LET a == Attempt(_call_gpt_on_file(f, x))
                                                     IN ~a.raises /\ a.err # <<>>},
                    r2 \in ConcurrentReplies}

\* the bytes behind a file id, as the extractors see them
FileFor(file_id, file_type) ==
  IF file_id = 1 THEN File(file_type, FALSE, <<>>, 0, <<>>, <<>>)
  ELSE File(file_type, TRUE, SomeText, 1, <<>>, <<>>)

NoMessage == <<>>
\* the arguments of send_photo
Message(chat_id_, thread_id_, status_msg_id_, photo_, caption_) ==
  <<[chat_id |-> chat_id_, message_thread_id |-> thread_id_, reply_to_message_id |-> status_msg_id_,
     photo |-> photo_, caption |-> caption_]>>
QrMessage(r, kept) ==
  Message(r.chat_id, r.thread_id, r.status_msg_id, kept.st, _caption_from_fields(kept.fields, kept.notes))
FallbackMessage(r, kept, err) ==
  Message(r.chat_id, r.thread_id, r.status_msg_id, demo_payload,
          [kind |-> "fallback", reason |-> _reason_human(err), preview |-> _fields_preview(kept.fields)])
QrFailed == <<"QR could not be generated">>

NewRun(id) ==
  [pc |-> "start", chat_id |-> CHAT, status_msg_id |-> id,
   file_id |-> 0, file_type |-> "", thread_id |-> 0,
   overlapped |-> FALSE, replies |-> <<>>, qr_made |-> FALSE, kept |-> Attempt(Failure("none")),
   pending |-> NoMessage, sent |-> <<>>]

\* Both invoices have been approved; the second may have no source yet.
InitRuns ==
  /\ pc = "bot" /\ program = "moderation"
  /\ ADMIN_USER_IDS = {1}
  /\ invoices \in {[id \in MsgIds |-> [Record(APPROVED, "unknown") EXCEPT
                                          !.src = IF id = 1 \/ bound THEN <<SourceOf(id)>> ELSE <<>>]] :
                     bound \in BOOLEAN}
  /\ WAITING_REASON = <<>> /\ INVOICES = <<>>
  /\ last = NoUpdate
  /\ runs = [id \in MsgIds |-> NewRun(id)]
  /\ shown = [id \in MsgIds |-> {"approve", "reject", "paid"}] /\ asked = <<>>
  /\ V2Idle
  /\ arg = <<>> /\ ret = <<>>
  /\ ProcessorIdle

runFrame == <<pc, arg, ret, processorVars, program, ADMIN_USER_IDS, invoices, WAITING_REASON,
              INVOICES, last, shown, asked, v2Vars>>
At(p, where) == pc = "bot" /\ p \in DOMAIN runs /\ runs[p].pc = where
\* the invocation is suspended at one of its awaits
UnderWay(r) == r.pc \in {"get_file", "download", "send_photo", "send_fallback"}
Becomes(p, r) == runs' = [runs EXCEPT ![p] = r] /\ UNCHANGED runFrame

\* lines 509-517: the source is read from the store, before any await
RunBegin ==
  \E p \in MsgIds :
    /\ At(p, "start")
    /\ LET inv == get(invoices, runs[p].status_msg_id)
       IN  IF inv = <<>> \/ inv[1].src = <<>>
           THEN Becomes(p, [runs[p] EXCEPT !.pc = "returned"])
           ELSE Becomes(p, [runs[p] EXCEPT !.pc = "get_file",
                                           !.overlapped = \E q \in MsgIds \ {p} : UnderWay(runs[q]),
                                           !.file_id = inv[1].src[1].file_id,
                                           !.file_type = inv[1].src[1].file_type,
                                           !.thread_id = inv[1].src[1].thread_id])

\* line 519: await context.bot.get_file
RunGetFile ==
  \E p \in MsgIds, ok \in BOOLEAN :
    /\ At(p, "get_file")
    /\ Becomes(p, [runs[p] EXCEPT !.pc = IF ok THEN "download" ELSE "raised"])

\* lines 536-599: the attempt kept after the calls of the model is given; the
\* QR of the outcome is made and handed to send_photo
Processed(p, replies, kept) ==
  LET r == [runs[p] EXCEPT !.replies = replies, !.kept = kept]
  IN  IF kept.raises THEN Becomes(p, [r EXCEPT !.pc = "raised"])
      ELSE IF Succeeded(kept)
      THEN \/ Becomes(p, [r EXCEPT !.pc = "send_photo", !.qr_made = TRUE,
                                    !.pending = QrMessage(r, kept)])
           \/ Becomes(p, [r EXCEPT !.pc = "send_fallback",
                                    !.pending = FallbackMessage(r, kept, QrFailed)])
      ELSE Becomes(p, [r EXCEPT !.pc = "send_fallback",
                                !.pending = FallbackMessage(r, kept, kept.err)])

\* lines 520-599: the download ends; the text is extracted, the model is
\* called and called again, and the QR of the outcome is made and handed
\* to send_photo
RunDownload ==
  \E p \in MsgIds :
    /\ At(p, "download")
    /\ \/ Becomes(p, [runs[p] EXCEPT !.pc = "raised"])
       \/ \E replies \in ReplySeqs(FileFor(runs[p].file_id, runs[p].file_type)) :
            Processed(p, replies, KeptOf(FileFor(runs[p].file_id, runs[p].file_type), replies))

\* lines 580-590: send_photo with the QR ends; its exception is caught and
\* the fallback is sent instead
RunSendPhoto ==
  \E p \in MsgIds, ok \in BOOLEAN :
    /\ At(p, "send_photo")
    /\ IF ok
       THEN Becomes(p, [runs[p] EXCEPT !.pc = "done", !.sent = @ \o runs[p].pending,
                                       !.pending = NoMessage])
       ELSE Becomes(p, [runs[p] EXCEPT !.pc = "send_fallback",
                                       !.pending = FallbackMessage(runs[p], runs[p].kept, QrFailed)])

\* lines 605-611: send_photo with the fallback ends, outside any try
RunSendFallback ==
  \E p \in MsgIds, ok \in BOOLEAN :
    /\ At(p, "send_fallback")
    /\ IF ok
       THEN Becomes(p, [runs[p] EXCEPT !.pc = "done", !.sent = @ \o runs[p].pending,
                                       !.pending = NoMessage])
       ELSE Becomes(p, [runs[p] EXCEPT !.pc = "raised", !.pending = NoMessage])

\* the admin presses approve or reject on a status message
AdminDecides ==
  \E action \in {"approve", "reject"}, status_msg_id \in MsgIds :
    handle_moderation_by(1, action, status_msg_id)

NextRuns ==
  \/ RunBegin
  \/ RunGetFile
  \/ RunDownload
  \/ RunSendPhoto
  \/ RunSendFallback
  \/ BindSource
  \/ AdminDecides

SpecRuns == InitRuns /\ [][NextRuns]_vars

(***************************************************************************)
(* main_web_v2.py: the webhook bot.  Every request to the webhook is       *)
(* served by a thread of its own (app.run, line 572); the threads share    *)
(* PENDING and RESULTS, whose single operations (pop, get, assignment of   *)
(* an item) are atomic.  A request is one step up to and including its     *)
(* only operation on the shared dicts; an accepted "ok:" goes on in steps  *)
(* of its own, between which other requests are served.                    *)
(***************************************************************************)
OTHER_CHAT == 200
TOPIC == 7
SECRET == <<"s", "3">>
WrongSecret == <<"s", "4">>
\* the tokens uuid4 gives out, in this order
Tokens == {1, 2}
\* at most so many threads stand between their steps at a time
MaxThreads == 2

\* the environment: nothing set ("" each), one of the three settings set,
\* or all of them
Envs ==
  {NoEnv, [NoEnv EXCEPT !.WEBHOOK_SECRET = SECRET], [NoEnv EXCEPT !.ALLOWED_CHAT_ID = ToStr(CHAT)],
   [NoEnv EXCEPT !.ALLOWED_TOPIC_ID = ToStr(TOPIC)],
   [WEBHOOK_SECRET |-> SECRET, ALLOWED_CHAT_ID |-> ToStr(CHAT), ALLOWED_TOPIC_ID |-> ToStr(TOPIC)]}
\* where an update says it comes from: a chat, and a topic or none (0)
Origin(chat_, topic_) == [chat |-> chat_, topic |-> topic_]
Origins == {Origin(CHAT, TOPIC), Origin(OTHER_CHAT, TOPIC), Origin(CHAT, 0)}
\* the secret in the path of a request, <<>> for /webhook without one
PathSecrets == IF ENV.WEBHOOK_SECRET = <<>> THEN {<<>>} ELSE {<<>>, SECRET, WrongSecret}

\* passes_filters (lines 201-211): str(chat id) and str(topic id), "" for no
\* topic, against the settings
TopicStr(topic) == IF topic = 0 THEN <<>> ELSE ToStr(topic)
passes_filters(o) ==
  /\ ~(ENV.ALLOWED_CHAT_ID # <<>> /\ ToStr(o.chat) # ENV.ALLOWED_CHAT_ID)
  /\ ~(ENV.ALLOWED_TOPIC_ID # <<>> /\ TopicStr(o.topic) # ENV.ALLOWED_TOPIC_ID)

Authorized_Any(secret) == TRUE

\* webhook, lines 548-550
Authorized(secret) ==
  ~(ENV.WEBHOOK_SECRET # <<>> /\ (secret = <<>> \/ secret # ENV.WEBHOOK_SECRET))

\* the InvoiceFields extract_fields_from_text may give: complete, or with
\* one of the four fields process_document asks for empty
FullInvoice ==
  [Name |-> <<"P", "o", "l", "u", "c", "h", "a", "t", "e", "l">>,
   PersonalAcc |-> GoodAcc, BankName |-> FullVals["BankName"], BIC |-> GoodBIC,
   CorrespAcc |-> GoodCorr, PayeeINN |-> GoodINN, KPP |-> <<>>,
   Sum |-> ToInt(GoodSum), Purpose |-> FullVals["Purpose"]]
AskedFor == {"PersonalAcc", "BIC", "PayeeINN", "Sum"}
ParsedInvoices ==
  {FullInvoice, [FullInvoice EXCEPT !.PersonalAcc = <<>>], [FullInvoice EXCEPT !.BIC = <<>>],
   [FullInvoice EXCEPT !.PayeeINN = <<>>], [FullInvoice EXCEPT !.Sum = 0]}

missing_None(f) == {}

\* process_document, lines 373-376: the fields asked for that are falsy
missing(f) == {k \in AskedFor : IF k = "Sum" THEN f.Sum = 0 ELSE f[k] = <<>>}

\* what is noted for a token: how often process_document began for it, the
\* callback buttons sent out with it, whether an "ok:" or "no:" for it has
\* been handled, and whether a "cancel:" has
NewToken(buttons_) == [processed |-> 0, buttons |-> buttons_, consumed |-> FALSE, cancelled |-> FALSE]
Issued == DOMAIN journal
\* uuid4: a token that has not been given out before
FreshToken == Cardinality(Issued) + 1
\* callback data reaches the bot from a button it has sent out
WithButton(b) == {t \in Issued : b \in journal[t].buttons}

InitV2 ==
  /\ pc = "v2" /\ program = "main_web_v2"
  /\ ENV \in Envs
  /\ PENDING = <<>> /\ RESULTS = <<>>
  /\ reqs = <<>> /\ journal = <<>>
  /\ last = NoUpdate
  /\ ADMIN_USER_IDS = {} /\ invoices = <<>> /\ WAITING_REASON = <<>> /\ INVOICES = <<>>
  /\ runs = <<>> /\ shown = <<>> /\ asked = <<>>
  /\ arg = <<>> /\ ret = <<>>
  /\ ProcessorIdle

v2Frame == <<pc, arg, ret, processorVars, program, ADMIN_USER_IDS, invoices, WAITING_REASON,
             INVOICES, runs, shown, asked, ENV>>

\* the request or the step served last: what it was, for which token (0 for
\* none), where the update said it came from, the secret in the path, the
\* HTTP status and what was told to the chat
Answered(handler_, token_, o, secret_, status_, outcome_) ==
  last' = [handler |-> handler_, token |-> token_, chat |-> o.chat, topic |-> o.topic,
           secret |-> secret_, status |-> status_, outcome |-> outcome_]
UpdateKinds == {"probe", "document", "text", "ok", "no", "pay", "get", "cancel", "other"}

\* webhook (lines 545-567) around handle_update: a wrong or absent secret is
\* answered 403 before anything else
NoOrigin == Origin(0, 0)
webhook(secret, handled) ==
  /\ pc = "v2"
  /\ IF Authorized(secret)
     THEN handled
     ELSE /\ Answered("none", 0, NoOrigin, secret, 403, "forbidden")
          /\ UNCHANGED <<PENDING, RESULTS, reqs, journal>>
  /\ UNCHANGED v2Frame

Quiet == UNCHANGED <<PENDING, RESULTS, reqs, journal>>
\* d.get(k) and the value of d.pop(k, None): <<>> for None
Found(d, k) == IF k \in DOMAIN d THEN <<d[k]>> ELSE <<>>
Drop(s, i) == SubSeq(s, 1, i - 1) \o SubSeq(s, i + 1, Len(s))

\* line 552: a GET is answered before the body is read
Probe ==
  \E secret \in PathSecrets :
    webhook(secret,
            Answered("probe", 0, NoOrigin, secret, 200, "ok") /\ Quiet)

\* handle_update, lines 500-532: a message with a document; the token is
\* stored before the message with the two buttons is sent, which may fail
DocumentMessage ==
  \E o \in Origins, secret \in PathSecrets, delivered \in BOOLEAN :
    webhook(secret,
            IF ~passes_filters(o)
            THEN Answered("document", 0, o, secret, 200, "ignored") /\ Quiet
            ELSE /\ FreshToken \in Tokens
                 /\ PENDING' = Put(PENDING, FreshToken,
                                   [chat_id |-> o.chat, thread_id |-> o.topic,
                                    file_id |-> FreshToken, token |-> FreshToken])
                 /\ journal' = Put(journal, FreshToken,
                                   NewToken(IF delivered THEN {"ok", "no"} ELSE {}))
                 /\ Answered("document", FreshToken, o, secret,
                             IF delivered THEN 200 ELSE 500, "asked")
                 /\ UNCHANGED <<RESULTS, reqs>>)

\* handle_update, lines 500-504 and 534-536: a text message
TextMessage ==
  \E o \in Origins, secret \in PathSecrets :
    webhook(secret,
            /\ Answered("text", 0, o, secret, 200,
                        IF passes_filters(o) THEN "hint" ELSE "ignored")
            /\ Quiet)

PendingLeft_Kept(token) == PENDING

\* lines 425 and 435: PENDING.pop(token, None), the dict afterwards
PendingLeft(token) == Pop(PENDING, token)

\* handle_update, lines 494-497, and handle_callback, lines 423-431: "ok:";
\* with a context the thread goes on to confirm and to process_document
CallbackOk ==
  \E token \in WithButton("ok"), o \in Origins, secret \in PathSecrets :
    webhook(secret,
            LET ctx == Found(PENDING, token)
            IN  /\ PENDING' = PendingLeft(token)
                /\ journal' = [journal EXCEPT ![token].consumed = TRUE]
                /\ IF ctx = <<>>
                   THEN /\ Answered("ok", token, o, secret, 200, "no_session")
                        /\ UNCHANGED reqs
                   ELSE /\ Len(reqs) < MaxThreads
                        /\ reqs' = Append(reqs, [pc |-> "confirm", ctx |-> ctx[1]])
                        /\ Answered("ok", token, o, secret, 200, "taken")
                /\ UNCHANGED RESULTS)

\* handle_callback, lines 433-437: "no:"
CallbackNo ==
  \E token \in WithButton("no"), o \in Origins, secret \in PathSecrets :
    webhook(secret,
            /\ PENDING' = PendingLeft(token)
            /\ journal' = [journal EXCEPT ![token].consumed = TRUE]
            /\ Answered("no", token, o, secret, 200, "cancelled")
            /\ UNCHANGED <<RESULTS, reqs>>)

\* handle_callback, lines 439-482: "pay:" and "get:" read RESULTS and send
\* the payment data, or say that there is none
CallbackPayOrGet ==
  \E kind \in {"pay", "get"}, o \in Origins, secret \in PathSecrets :
    \E token \in WithButton(kind) :
      webhook(secret,
              /\ Answered(kind, token, o, secret, 200,
                          IF Found(RESULTS, token) # <<>> THEN "data" ELSE "no_data")
              /\ Quiet)

\* handle_callback, lines 484-488: "cancel:"
CallbackCancel ==
  \E token \in WithButton("cancel"), o \in Origins, secret \in PathSecrets :
    webhook(secret,
            /\ RESULTS' = Pop(RESULTS, token)
            /\ journal' = [journal EXCEPT ![token].cancelled = TRUE]
            /\ Answered("cancel", token, o, secret, 200, "cleared")
            /\ UNCHANGED <<PENDING, reqs>>)

\* handle_callback, line 490: data of no known kind
CallbackOther ==
  \E o \in Origins, secret \in PathSecrets :
    webhook(secret, Answered("other", 0, o, secret, 200, "unknown") /\ Quiet)

\* one of the threads that took a context stands at where
Standing(i, where) == pc = "v2" /\ i \in 1..Len(reqs) /\ reqs[i].pc = where

\* handle_callback, lines 429-430: the confirmation is sent; if that fails
\* process_document is never called
Confirm ==
  \E i \in 1..Len(reqs), delivered \in BOOLEAN :
    /\ Standing(i, "confirm")
    /\ reqs' = IF delivered THEN [reqs EXCEPT ![i].pc = "process_document"] ELSE Drop(reqs, i)
    /\ Answered("confirm", reqs[i].ctx.token, Origin(reqs[i].ctx.chat_id, reqs[i].ctx.thread_id), <<>>,
                IF delivered THEN 200 ELSE 500, "confirmed")
    /\ UNCHANGED <<PENDING, RESULTS, journal, v2Frame>>

\* process_document, lines 343-396: download, text, fields, the string and
\* its QR; only then RESULTS[token] is written
process_document ==
  \E i \in 1..Len(reqs), got \in {"download_failed", "no_text", "text"},
     f \in ParsedInvoices, qr_made \in BOOLEAN :
    /\ Standing(i, "process_document")
    /\ LET token == reqs[i].ctx.token
       IN  /\ journal' = [journal EXCEPT ![token].processed = @ + 1]
           /\ IF got = "text" /\ missing(f) = {} /\ qr_made
              THEN /\ RESULTS' = Put(RESULTS, token, [fields |-> f, st |-> to_st00012(f)])
                   /\ reqs' = [reqs EXCEPT ![i].pc = "send_result"]
                   /\ Answered("process_document", token, Origin(reqs[i].ctx.chat_id, reqs[i].ctx.thread_id), <<>>, 200, "stored")
              ELSE /\ RESULTS' = RESULTS
                   /\ reqs' = Drop(reqs, i)
                   /\ Answered("process_document", token, Origin(reqs[i].ctx.chat_id, reqs[i].ctx.thread_id), <<>>,
                               IF got = "text" /\ missing(f) = {} THEN 500 ELSE 200,
                               IF got # "text" THEN got
                               ELSE IF missing(f) # {} THEN "missing" ELSE "qr_failed")
    /\ UNCHANGED <<PENDING, v2Frame>>

\* process_document, lines 398-413: the QR is sent, then the message with
\* the three buttons; either may fail
SendResult ==
  \E i \in 1..Len(reqs), delivered \in BOOLEAN :
    /\ Standing(i, "send_result")
    /\ reqs' = Drop(reqs, i)
    /\ journal' = [journal EXCEPT ![reqs[i].ctx.token].buttons =
                     IF delivered THEN @ \cup {"pay", "get", "cancel"} ELSE @]
    /\ Answered("send_result", reqs[i].ctx.token, Origin(reqs[i].ctx.chat_id, reqs[i].ctx.thread_id), <<>>,
                IF delivered THEN 200 ELSE 500, "sent")
    /\ UNCHANGED <<PENDING, RESULTS, v2Frame>>

NextV2 ==
  \/ Probe
  \/ DocumentMessage
  \/ TextMessage
  \/ CallbackOk
  \/ CallbackNo
  \/ CallbackPayOrGet
  \/ CallbackCancel
  \/ CallbackOther
  \/ Confirm
  \/ process_document
  \/ SendResult

SpecV2 == InitV2 /\ [][NextV2]_vars

(***************************************************************************)
(* Claims about _validate_st00012 (checked under SpecValidate).            *)
(***************************************************************************)
\* What the written segments say about a required key, read off the list
\* the string was written from and not off the string: the key is absent
\* when no key=value segment carries it, blank when the last such segment
\* has a value of whitespace only.
Carriers(k) == {i \in 1..Len(v_segs) : v_segs[i].eq /\ v_segs[i].key = KeyChars(k)}
LastCarrier(k) == CHOOSE i \in Carriers(k) : \A j \in Carriers(k) : j <= i
IsBlank(v) == \A i \in 1..Len(v) : v[i] \in Whitespace
AbsentOrBlank(k) == Carriers(k) = {} \/ IsBlank(v_segs[LastCarrier(k)].val)
AbsentOrBlankKeys == {k \in RequiredKeys : AbsentOrBlank(k)}
Reported == {err_code[i] : i \in 2..Len(err_code)}
IsMissingCode == err_code # <<>> /\ err_code[1] = "missing:"

\* C9: for every string that begins with the format tag and the separator,
\* the validator answers with the missing-fields reason exactly when some
\* required key is absent or blank, and the reason then names exactly the
\* absent-or-blank required keys, each once.
C9_MissingFieldsExact ==
  (pc = "v_done" /\ StartsWith(st, TagSep)) =>
    /\ IsMissingCode <=> AbsentOrBlankKeys # {}
    /\ IsMissingCode =>
         /\ Reported = AbsentOrBlankKeys
         /\ Len(err_code) - 1 = Cardinality(AbsentOrBlankKeys)

\* C9 witness: a string with a segment without "=", a blank Name and no BIC
\* has been answered with exactly these two names.
C9_Witness ==
  /\ pc = "v_done"
  /\ \E i \in 1..Len(v_segs) : ~v_segs[i].eq
  /\ Carriers("Name") # {} /\ Carriers("BIC") = {}
  /\ err_code = <<"missing:", "Name", "BIC">>

HasBareSegment == \E i \in 1..Len(v_segs) : ~v_segs[i].eq

\* C10 (as claimed): every string with, after the format tag, a segment
\* that contains no "=" is rejected with the malformed-fields reason.
C10_BareSegmentRejected ==
  (pc = "v_done" /\ StartsWith(st, TagSep) /\ HasBareSegment) =>
    err_code = <<"failed to parse key=value pairs">>

\* The value the written segments give a key: that of the last key=value
\* segment carrying it, "" when there is none.
Given(k) == IF Carriers(k) = {} THEN <<>> ELSE v_segs[LastCarrier(k)].val
DigitCount(v) == Cardinality({i \in 1..Len(v) : v[i] \in Digits})
Tagged == Len(st) >= Len(TagSep) /\ \A i \in 1..Len(TagSep) : st[i] = TagSep[i]
LengthsRight ==
  /\ DigitCount(Given("BIC")) = BIC_LEN
  /\ DigitCount(Given("PersonalAcc")) = ACC_LEN
  /\ DigitCount(Given("CorrespAcc")) = ACC_LEN
PositiveDigits(v) == IsDigitStr(v) /\ ToInt(v) > 0

\* C11 (as claimed): a string is accepted only if its Sum value consists of
\* digits alone and is greater than zero; a Sum value with any other
\* character, or equal to zero, is answered with the bad-amount reason once
\* the checks before it have passed.
C11_SumAllDigitsPositive ==
  (pc = "v_done" /\ Tagged) =>
    /\ err_code = <<>> => PositiveDigits(Given("Sum"))
    /\ (AbsentOrBlankKeys = {} /\ LengthsRight /\ ~PositiveDigits(Given("Sum")))
         => err_code = <<"bad_sum">>

\* C12: every accepted string has 9 digits in its BIC value and 20 digits in
\* each of its PersonalAcc and CorrespAcc values; when no required key is
\* missing, the reason is that of the first of BIC, PersonalAcc, CorrespAcc
\* whose digit count is wrong, and none of the three reasons is given
\* when the three counts are right.
C12_DigitLengths ==
  (pc = "v_done" /\ Tagged) =>
    /\ err_code = <<>> => LengthsRight
    /\ AbsentOrBlankKeys = {} =>
         /\ err_code = <<"bad_bic">> <=> DigitCount(Given("BIC")) # BIC_LEN
         /\ err_code = <<"bad_personal">> <=>
              /\ DigitCount(Given("BIC")) = BIC_LEN
              /\ DigitCount(Given("PersonalAcc")) # ACC_LEN
         /\ err_code = <<"bad_corresp">> <=>
              /\ DigitCount(Given("BIC")) = BIC_LEN
              /\ DigitCount(Given("PersonalAcc")) = ACC_LEN
              /\ DigitCount(Given("CorrespAcc")) # ACC_LEN
    /\ err_code \in {<<"bad_bic">>, <<"bad_personal">>, <<"bad_corresp">>} => AbsentOrBlankKeys = {}

\* C12 witness: a string whose BIC has 9 digits around a hyphen and whose
\* PersonalAcc has 20 digits around a space was answered with the reason
\* of its CorrespAcc, which has 21 digits.
C12_Witness ==
  /\ pc = "v_done" /\ Tagged
  /\ Given("BIC") = BIC_Hyphen /\ Given("PersonalAcc") = Acc_Spaced
  /\ Given("CorrespAcc") = Corr_Long
  /\ err_code = <<"bad_corresp">>

\* C13 (as claimed): when every required key is present, the BIC, account
\* and amount checks pass and the Purpose value is blank after trimming,
\* the validator answers with the bad-purpose reason.
C13_BlankPurposeIsBadPurpose ==
  (/\ pc = "v_done" /\ Tagged
   /\ \A k \in RequiredKeys : Carriers(k) # {}
   /\ AbsentOrBlankKeys \subseteq {"Purpose"}
   /\ LengthsRight /\ PositiveDigits(_digits_only(Given("Sum")))
   /\ IsBlank(Given("Purpose"))) =>
    err_code = <<"bad_purpose">>

\* C14: every string that does not begin with "ST00012|", the empty string
\* included, is answered with the not-recognized-format reason, whatever
\* follows: a complete body, a body with a key missing or none.
C14_UntaggedNotRecognized ==
  (pc = "v_done" /\ ~Tagged) => err_code = <<"payload is not ST00012">>

\* C14 witness: a string with "ST00012" not followed by "|" and then a body
\* that lacks Name has been answered, and so has the empty string's
\* neighbour, the tag alone.
C14_Witness ==
  /\ pc = "v_done" /\ ~Tagged
  /\ v_segs = Tail(FullSegs)
  /\ SubSeq(st, 1, Len(FormatTag)) = FormatTag
  /\ err_code = <<"payload is not ST00012">>

(***************************************************************************)
(* Claims about the encoders (checked under SpecEncode).                   *)
(***************************************************************************)
\* The fields of a payment-code string, by the validator's own parsing.
CodeFields(code) == IF StartsWith(code, TagSep) THEN ParseKV(Tail(Split(code, "|"))) ELSE <<>>
CodeValue(code, k) ==
  IF KeyChars(k) \in DOMAIN CodeFields(code) THEN CodeFields(code)[KeyChars(k)] ELSE <<>>

\* C15 (as claimed): when the string built from a field map passes the
\* validator, parsing that string gives back the field map: every key of
\* the map with its value (an optional key with an empty value counting as
\* absent), and no other key.
C15_RoundTrip ==
  (pc = "e_done" /\ err_code = <<>>) =>
    /\ \A k \in DOMAIN fields.vals : CodeValue(st, k) = fields.vals[k]
    /\ DOMAIN CodeFields(st) \subseteq {KeyChars(k) : k \in DOMAIN fields.vals}

Forbidden == {"|", "\n", "\r"}
Clean(v) == \A i \in 1..Len(v) : v[i] \notin Forbidden
EncodedKeys(f) == RequiredKeys \cup {k \in {"PayeeINN", "KPP"} : Get(f, k) # <<>>}

\* C16 (as claimed): in a string built from sanitized fields no value holds
\* "|", a newline or a carriage return: the sanitized Purpose, Name and
\* BankName are free of them, and the string splits at "|" into the tag
\* and one segment for each encoded key.
C16_NoSeparatorInValues ==
  pc \in {"e_built", "e_done"} =>
    /\ \A k \in {"Purpose", "Name", "BankName"} : Clean(Get(fields, k))
    /\ Len(Split(st, "|")) = 1 + Cardinality(EncodedKeys(fields))

\* C17: sanitizing a sanitized field map changes nothing.
C17_SanitizeIdempotent ==
  [][(pc = "e_clean" /\ pc' = "e_clean2") => fields' = fields]_vars

\* C17 witness: a field map whose Name and Purpose carry angle quotes, a
\* non-breaking space and runs of whitespace, and whose BIC and KPP carry
\* letters in the place of digits, has been sanitized twice, the first
\* time changing these four values.
C17_Witness ==
  /\ pc = "e_clean2"
  /\ "LAQUO" \in {raw.vals["Name"][i] : i \in 1..Len(raw.vals["Name"])}
  /\ "LAQUO" \in {raw.vals["Purpose"][i] : i \in 1..Len(raw.vals["Purpose"])}
  /\ raw.vals["BIC"] = OcrBIC /\ Get(raw, "KPP") = OcrKPP
  /\ \A k \in {"Name", "Purpose", "BIC", "KPP"} : fields.vals[k] # raw.vals[k]
  /\ fields.vals["BIC"] = GoodBIC /\ fields.vals["KPP"] = GoodKPP

\* The keys of the key=value segments of a string, in their order.
KeySeq(code) ==
  LET segs == SelectSeq(Tail(Split(code, "|")), LAMBDA p : IndexOf(p, "=") # 0)
  IN  [i \in 1..Len(segs) |-> SubSeq(segs[i], 1, IndexOf(segs[i], "=") - 1)]
KeysInOrder(inn, kpp) ==
  [i \in 1..Len(ST00012_REQUIRED) |-> KeyChars(ST00012_REQUIRED[i])]
    \o (IF inn # <<>> THEN <<KeyChars("PayeeINN")>> ELSE <<>>)
    \o (IF kpp # <<>> THEN <<KeyChars("KPP")>> ELSE <<>>)

\* C19 (as claimed): a string encoded from fields, by
\* _build_st00012_from_fields or by InvoiceFields.to_st00012, lists the
\* keys Name, PersonalAcc, BankName, BIC, CorrespAcc, Sum, Purpose in this
\* order, then PayeeINN and then KPP, each of the two only if not empty.
C19_KeyOrder ==
  /\ pc \in {"e_built", "e_done"} =>
       KeySeq(st) = KeysInOrder(Get(fields, "PayeeINN"), Get(fields, "KPP"))
  /\ pc = "i_built" => KeySeq(st) = KeysInOrder(raw.PayeeINN, raw.KPP)

\* A Sum text is negative when it begins with "-"; it is decimal-like when,
\* spaces aside, it is digits, one "," or ".", and digits.
NoSpaces(s) == SelectSeq(s, LAMBDA c : c \notin Whitespace)
Negative(s) == NoSpaces(s) # <<>> /\ Head(NoSpaces(s)) = "-"
SepAt(s) == IF IndexOf(s, ",") # 0 THEN IndexOf(s, ",") ELSE IndexOf(s, ".")
DecimalLike(s) ==
  LET t == NoSpaces(s)
  IN  /\ SepAt(t) > 1
      /\ IsDigitStr(SubSeq(t, 1, SepAt(t) - 1))
      /\ SepAt(t) = Len(t) \/ IsDigitStr(SubSeq(t, SepAt(t) + 1, Len(t)))
Unparseable(s) == ~IsDigitStr(NoSpaces(s)) /\ ~DecimalLike(s) /\ ~Negative(s)

\* C22 (as claimed): a Sum text that is negative or cannot be parsed does
\* not come out of the sanitizer as a positive amount, and the string built
\* from the sanitized fields fails validation.
C22_BadSumFailsValidation ==
  (/\ pc = "e_done" /\ "Sum" \notin raw.ints
   /\ Negative(raw.vals["Sum"]) \/ Unparseable(raw.vals["Sum"])) =>
    /\ ~PositiveDigits(fields.vals["Sum"])
    /\ err_code # <<>>

(***************************************************************************)
(* Claims about on_approved_send_qr (checked under Spec).                  *)
(***************************************************************************)
\* C1 (as claimed): every string passed to the QR encoder is one the
\* validator accepts.
C1_OnlyValidatedEncoded ==
  \A i \in 1..Len(qr_encoded) : _validate_st00012(qr_encoded[i]) = <<>>

\* the required keys the kept attempt did not extract
NotExtracted == {k \in RequiredKeys : IsBlank(CodeValue(st, k))}

\* C2 (as claimed): when the run ends and a required field was not
\* extracted, the message sent is a failure whose reason names exactly the
\* fields not extracted; and every required value in a payment code that
\* was sent is a value some attempt extracted under that key.
C2_NoFabrication ==
  /\ (pc = "done" /\ NotExtracted # {}) =>
        \A i \in 1..Len(sent) :
          /\ sent[i].caption.kind = "fallback"
          /\ {sent[i].caption.reason[j] : j \in 2..Len(sent[i].caption.reason)} = NotExtracted
  /\ \A i \in 1..Len(sent) : \A k \in RequiredKeys :
        \/ CodeValue(sent[i].photo, k) = <<>>
        \/ \E j \in 1..Len(attempts) : CodeValue(attempts[j].st, k) = CodeValue(sent[i].photo, k)

\* C3 (as claimed): with a source bound, no exception escapes
\* on_approved_send_qr, and a run that ends has shown one message.
C3_NoEscape ==
  src # <<>> => /\ pc # "raised"
                /\ pc = "done" => Len(sent) = 1

\* C4: at most 1 + MAX_RETRY_ON_FAIL calls of the model are made, the first
\* with GPT_MODEL and the others with RETRY_MODEL; a call with RETRY_MODEL
\* is made only with the two models distinct and after a first attempt
\* that failed validation; every turn of the retry loop that stays in the
\* loop lowers retries_left, which never goes below 0.
C4_RetryBoundedState ==
  /\ Len(calls) <= 1 + cfg.MAX_RETRY_ON_FAIL
  /\ Len(attempts) <= 1 + cfg.MAX_RETRY_ON_FAIL
  /\ retries_left \in 0..cfg.MAX_RETRY_ON_FAIL
  /\ \A i \in 1..Len(calls) :
       IF i = 1 THEN calls[i].model = "GPT_MODEL"
       ELSE /\ calls[i].model = "RETRY_MODEL"
            /\ cfg.distinct_models
            /\ attempts # <<>> /\ attempts[1].err # <<>>
  /\ Len(attempts) >= 2 => cfg.distinct_models /\ attempts[1].err # <<>>

C4_RetryBounded ==
  /\ []C4_RetryBoundedState
  /\ [][(pc = "loop" /\ pc' = "loop") => retries_left' < retries_left]_vars
  /\ [][(pc = "loop" /\ Len(attempts') > Len(attempts)) => retries_left' = retries_left - 1]_vars

\* C4 witness: the retry count is 2 and the model has been called 3 times,
\* the loop having run out of retries.
C4_Witness ==
  /\ cfg.MAX_RETRY_ON_FAIL >= 2 /\ Len(calls) = 1 + cfg.MAX_RETRY_ON_FAIL
  /\ pc = "outcome" /\ retries_left = 0 /\ err_code # <<>>

NonEmptyCount(f) == Cardinality({k \in DOMAIN f.vals : f.vals[k] # <<>>})
Kept == [st |-> st, fields |-> fields, notes |-> notes, err |-> err_code]
Result(a) == [st |-> a.st, fields |-> a.fields, notes |-> a.notes, err |-> a.err]

\* C5 (as claimed): after the one retry, the kept result is the retry if
\* it validates; if neither validates, the retry is kept only if it has
\* more non-empty fields than the first attempt, which is kept otherwise.
C5_KeepsBetter ==
  (pc = "outcome" /\ cfg.MAX_RETRY_ON_FAIL = 1 /\ Len(attempts) = 2) =>
    Kept = IF attempts[2].err = <<>> THEN Result(attempts[2])
           ELSE IF NonEmptyCount(attempts[2].fields) > NonEmptyCount(attempts[1].fields)
                THEN Result(attempts[2])
                ELSE Result(attempts[1])

LacksBIC(a) == a.err # <<>> /\ a.err[1] = "missing:" /\ \E i \in 2..Len(a.err) : a.err[i] = "BIC"

\* C6 (as claimed): when the first attempt and the one retry both lack BIC,
\* the failure shown reports the missing BIC and the notes kept for the
\* outcome hold the notes of both attempts.
C6_UnionOfNotes ==
  (/\ pc = "done" /\ cfg.MAX_RETRY_ON_FAIL = 1 /\ Len(attempts) = 2
   /\ LacksBIC(attempts[1]) /\ LacksBIC(attempts[2])) =>
    /\ Len(sent) = 1 /\ sent[1].caption.kind = "fallback"
    /\ \E i \in 2..Len(sent[1].caption.reason) : sent[1].caption.reason[i] = "BIC"
    /\ (attempts[1].notes \cup attempts[2].notes) \subseteq notes

\* the explanations of the validation-stage reason codes
ValidationReasons ==
  { _reason_human(c) : c \in { <<"payload is not ST00012">>, <<"failed to parse key=value pairs">>,
                               <<"bad_bic">>, <<"bad_personal">>, <<"bad_corresp">>,
                               <<"bad_sum">>, <<"bad_purpose">> } }
IsValidationReason(r) == r \in ValidationReasons \/ (r # <<>> /\ r[1] = _reason_human(<<"missing:">>)[1])

\* C7 (as claimed): when every call of the model failed with a transport
\* or authentication error, the failure shown carries a reason that is
\* none of the validation-stage reasons.
C7_ModelUnavailable ==
  (/\ pc = "done" /\ attempts # <<>>
   /\ \A i \in 1..Len(attempts) : attempts[i].notes = {"GPT error"}) =>
    /\ Len(sent) = 1 /\ sent[1].caption.kind = "fallback"
    /\ sent[1].caption.reason # <<>>
    /\ ~IsValidationReason(sent[1].caption.reason)

\* neither text nor page images can be had from the document
NoContent(f) ==
  \/ f.file_type = "document" /\ f.is_pdf /\ Strip(f.pdf_text) = <<>> /\ f.pages = 0
  \/ f.file_type = "document" /\ ~f.is_pdf /\ Strip(f.docx_text) = <<>>
  \/ f.file_type = "excel" /\ Strip(f.excel_text) = <<>>
  \/ f.file_type \notin {"photo", "document", "excel"} /\ Strip(f.pdf_text) = <<>>

\* C8 (as claimed): for a document that yields neither text nor page
\* images the run ends in a failure with the extraction-empty reason.
C8_ExtractionEmpty ==
  (pc = "done" /\ NoContent(file)) =>
    /\ Len(sent) = 1 /\ sent[1].caption.kind = "fallback"
    /\ sent[1].caption.reason = <<"extraction_empty">>

\* what the call returned needs the rebuild of lines 543-550
NeedsRebuild(got) == (got.st = <<>> \/ ~StartsWith(got.st, TagSep)) /\ Truthy(got.fields)

\* C18 (as claimed): whenever a call returns usable fields and an st that
\* is missing or does not start with "ST00012|", the attempt validates the
\* string built from the sanitized fields, and its result is that of
\* validating this string: it succeeds when the sanitized fields form a
\* valid record.
C18_RebuiltFromFields ==
  \A i \in 1..Len(calls) :
    NeedsRebuild(calls[i].got) =>
      LET rebuilt == _build_st00012_from_fields(_sanitize_fields(calls[i].got.fields))
      IN  /\ i <= Len(attempts)
          /\ attempts[i].st = rebuilt
          /\ attempts[i].err = _validate_st00012(rebuilt)

\* C20 (as claimed): for every response whose BIC is "O4452522S", all other
\* fields valid, the attempt has the BIC corrected to "044525225" and its
\* validation passes.
C20_OcrBicCorrected ==
  \A i \in 1..Len(calls) :
    (Truthy(calls[i].got.fields) /\ Get(calls[i].got.fields, "BIC") = OcrBIC) =>
      /\ i <= Len(attempts)
      /\ attempts[i].fields.vals["BIC"] = GoodBIC
      /\ attempts[i].err = <<>>

\* wholePart*100 + minorPart, the minor part padded or cut to two digits
ClaimedMinorUnits(s) ==
  LET t == NoSpaces(s)
      minor == SubSeq(SubSeq(t, SepAt(t) + 1, Len(t)) \o <<"0", "0">>, 1, 2)
  IN  IF IsDigitStr(s) THEN s
      ELSE ToStr(ToInt(SubSeq(t, 1, SepAt(t) - 1)) * 100 + ToInt(minor))

\* C21 (as claimed): a Sum returned as a string of digits is kept as it is,
\* and a Sum returned as a decimal-like string becomes
\* wholePart*100 + minorPart with the minor part of exactly two digits.
C21_AmountNormalized ==
  \A i \in 1..Len(attempts) :
    i <= Len(calls) =>
      LET f == calls[i].got.fields
      IN  (/\ "Sum" \in DOMAIN f.vals /\ "Sum" \notin f.ints
           /\ IsDigitStr(f.vals["Sum"]) \/ DecimalLike(f.vals["Sum"])) =>
            attempts[i].fields.vals["Sum"] = ClaimedMinorUnits(f.vals["Sum"])

\* C25: for a PDF document whose text layer is empty or blank, every request
\* sent to the model carries between 1 and 3 page images and no text, and
\* no request is sent when no page image was produced.
C25_ScanSendsImages ==
  (file.file_type = "document" /\ file.is_pdf /\ Strip(file.pdf_text) = <<>>) =>
    /\ \A i \in 1..Len(calls) :
         /\ calls[i].request.kind = "pdf_scan"
         /\ calls[i].request.images \in 1..MAX_PAGES
         /\ calls[i].request.images = IF file.pages < MAX_PAGES THEN file.pages ELSE MAX_PAGES
         /\ calls[i].request.text = <<>>
    /\ file.pages = 0 => calls = <<>>

\* C25 witness: a scanned PDF of more pages than 3 has been sent to the
\* model twice, and one that renders to no image has run to its end.
C25_Witness ==
  /\ file.file_type = "document" /\ file.is_pdf /\ Strip(file.pdf_text) = <<>>
  /\ \/ file.pages > MAX_PAGES /\ Len(calls) = 2 /\ pc = "done"
     \/ file.pages = 0 /\ Len(attempts) = 2 /\ pc = "done"

\* the reason the program shows for a run of one attempt with this reply
ReasonShownFor(reply) == _reason_human(Attempt(_call_gpt_on_file(file, reply)).err)
NoJsonNotes == {"Bad JSON from GPT: no JSON object found"}
BadJsonNotes == {"Bad JSON from GPT: decode error"}

\* C27 (as claimed): a response without a JSON object and a response whose
\* JSON does not parse end in failures with different reasons: the reason
\* shown after the one is not the reason shown after the other.
C27_JsonReasonsDiffer ==
  (pc = "done" /\ Len(attempts) = 1 /\ Len(calls) = 1 /\ Len(sent) = 1) =>
    /\ calls[1].got.notes = NoJsonNotes =>
         sent[1].caption.reason # ReasonShownFor(Failure("bad_json"))
    /\ calls[1].got.notes = BadJsonNotes =>
         sent[1].caption.reason # ReasonShownFor(Failure("no_json"))

\* the run has ended without a QR of the payment code
FailureOutcome == pc = "done" /\ \A i \in 1..Len(sent) : sent[i].caption.kind # "qr"
PreviewKeys(p) == {p[i].key : i \in 1..Len(p)}
\* the kept attempt had no answer of the model at all
NoAnswerKept ==
  notes \cap {"GPT error", "Bad JSON from GPT: no JSON object found",
              "Bad JSON from GPT: decode error",
              "PDF is a scan and could not be rendered to images"} # {}

\* C29 (as claimed): on every failure outcome one message has been shown;
\* it carries a reason that is specific to the failure (when the kept
\* attempt had no answer of the model, none of the validation reasons) and
\* a preview of every field of the kept attempt; the validator's reason
\* codes have explanations that differ from one another and from the codes.
C29_FailureShowsReasonAndPreview ==
  /\ FailureOutcome =>
       /\ Len(sent) = 1 /\ sent[1].caption.kind = "fallback"
       /\ sent[1].caption.reason # <<>>
       /\ NoAnswerKept => ~IsValidationReason(sent[1].caption.reason)
       /\ PreviewKeys(sent[1].caption.preview) = DOMAIN fields.vals \cap AllKeys
  /\ \A c \in { <<"payload is not ST00012">>, <<"bad_bic">>, <<"bad_personal">>,
                  <<"bad_corresp">>, <<"bad_sum">>, <<"bad_purpose">>, <<"missing:", "BIC">> } :
       /\ _reason_human(c) # c
       /\ \A d \in { <<"payload is not ST00012">>, <<"bad_bic">>, <<"bad_personal">>,
                       <<"bad_corresp">>, <<"bad_sum">>, <<"bad_purpose">>, <<"missing:", "BIC">> } :
            c # d => _reason_human(c) # _reason_human(d)

(***************************************************************************)
(* Claims about _parse_json (checked under SpecParse).                     *)
(***************************************************************************)
\* the index of the brace that closes the one at i (depth counted from d),
\* 0 when it is never closed
RECURSIVE ClosingAt(_, _, _)
ClosingAt(s, i, d) ==
  IF i > Len(s) THEN 0
  ELSE IF s[i] = "{" THEN ClosingAt(s, i + 1, d + 1)
  ELSE IF s[i] = "}" THEN (IF d = 1 THEN i ELSE ClosingAt(s, i + 1, d - 1))
  ELSE ClosingAt(s, i + 1, d)
\* the first balanced brace substring of a text, <<>> when there is none
FirstBalanced(s) ==
  LET i == IndexOf(s, "{")
      j == IF i = 0 THEN 0 ELSE ClosingAt(s, i + 1, 1)
  IN  IF j = 0 THEN <<>> ELSE SubSeq(s, i, j)
\* the text is prose around exactly one object, which is well-formed
OneObjectInProse(s) ==
  /\ FirstBalanced(s) # <<>>
  /\ json_loads(FirstBalanced(s)).kind = "ok"
  /\ LET j == ClosingAt(s, IndexOf(s, "{") + 1, 1)
     IN  \A k \in (j + 1)..Len(s) : s[k] # "{"

\* C28 (as claimed): for a response that is prose or fences around exactly
\* one well-formed object, prose with a "}" after the object included,
\* _parse_json returns the parse of that object.
C28_FirstBalancedParsed ==
  (pc = "p_done" /\ OneObjectInProse(arg)) =>
    /\ ret.kind = "ok"
    /\ ret.data = json_loads(FirstBalanced(arg)).data

(***************************************************************************)
(* Claims about the text extractors (checked under SpecExtract).           *)
(***************************************************************************)
\* what a strategy of _excel_to_text has to offer for the bytes: the text
\* of the workbook when the library reads it, nothing when it fails
Offer(b, strategy) ==
  IF strategy = "xlsx" THEN (IF b.xlsx.raises THEN <<>> ELSE b.xlsx.text)
  ELSE IF strategy = "xls" THEN (IF b.xls.raises THEN <<>> ELSE b.xls.text)
  ELSE IF b.sniff.raises THEN Decoded(b) ELSE b.sniff.text
\* the strategies whose signature the bytes bear, in the order of the claim
Applicable(b) ==
  SelectSeq(<<"xlsx", "xls", "csv">>,
            LAMBDA g : \/ g = "xlsx" /\ b.head = ZIP_SIG
                       \/ g = "xls" /\ b.head = OLE_SIG
                       \/ g = "csv")

\* C26: no extractor raises to its caller, each returns a text; and
\* _excel_to_text goes through the strategies the signature allows in the
\* order xlsx, xls, delimited text: every strategy it left behind had
\* failed or given empty text, and it returns what the last one offers.
C26_ExtractorsNeverRaise ==
  pc = "x_done" =>
    /\ ret.kind = "returned"
    /\ arg.fn = "_excel_to_text" =>
         /\ ret.tried # <<>>
         /\ ret.tried = SubSeq(Applicable(arg.b), 1, Len(ret.tried))
         /\ \A i \in 1..(Len(ret.tried) - 1) : Offer(arg.b, ret.tried[i]) = <<>>
         /\ ret.text = Offer(arg.b, ret.tried[Len(ret.tried)])
         /\ ret.tried[Len(ret.tried)] # "csv" => ret.text # <<>>

\* C26 witness: a workbook with the ZIP signature that the library fails to
\* read has been read as delimited text.
C26_Witness ==
  /\ pc = "x_done" /\ arg.fn = "_excel_to_text"
  /\ arg.b.head = ZIP_SIG /\ arg.b.xlsx.raises
  /\ ret.kind = "returned" /\ ret.tried = <<"xlsx", "csv">> /\ ret.text # <<>>

(***************************************************************************)
(* Claims about the bots (checked under SpecBot).                          *)
(***************************************************************************)
ByOutsider ==
  /\ ADMIN_USER_IDS # {}
  /\ last'.handler \in {"handle_moderation", "on_callback"}
  /\ last'.user \notin ADMIN_USER_IDS

\* C30: with a non-empty ADMIN_USER_IDS, a press of a button by a user
\* outside it changes no invoice of the store, no entry of INVOICES and no
\* pending reason request; and, whatever callbacks and texts came before,
\* nobody outside ADMIN_USER_IDS has a pending reason request.
C30_OutsiderChangesNothing ==
  /\ [](ADMIN_USER_IDS # {} => DOMAIN WAITING_REASON \subseteq ADMIN_USER_IDS)
  /\ [][ByOutsider =>
          /\ invoices' = invoices
          /\ WAITING_REASON' = WAITING_REASON
          /\ INVOICES' = INVOICES]_vars

\* C30 witness: an outsider has pressed a button on the status message of
\* an invoice that waits for approval, after an admin asked for a reason.
C30_Witness ==
  /\ ADMIN_USER_IDS # {}
  /\ last.handler = "handle_moderation" /\ last.user \notin ADMIN_USER_IDS
  /\ \E id \in DOMAIN invoices : invoices[id].status = WAIT
  /\ WAITING_REASON # <<>>

(***************************************************************************)
(* Claims about invocations side by side (checked under SpecRuns).         *)
(***************************************************************************)
\* C23 (as claimed): when the invoice of an invocation has left the status
\* APPROVED by the time the model's result is there, the result is not
\* acted on: the invocation hands no QR to send_photo.
C23_AbandonedResultDropped ==
  [][\A p \in MsgIds :
       (runs[p].pc = "download" /\ runs'[p].pc = "send_photo") =>
         invoices[p].status = APPROVED]_vars

\* what an invocation for the invoice p sends when it runs alone and is
\* given the replies of r: the QR of the kept attempt, or the fallback
OwnCall(p) == [chat_id |-> CHAT, thread_id |-> SourceOf(p).thread_id, status_msg_id |-> p]
AloneOutcomes(p, kept) ==
  IF Succeeded(kept)
  THEN {QrMessage(OwnCall(p), kept), FallbackMessage(OwnCall(p), kept, QrFailed)}
  ELSE {FallbackMessage(OwnCall(p), kept, kept.err)}
Finishes(p) == runs[p].pc # "done" /\ runs'[p].pc = "done"

\* C24: an invocation that ends beside another one has sent what it sends
\* when it runs alone with the same replies of the model: one message, to
\* its own chat and thread, with the string and caption made from its own
\* file; and the other invocation is left as it was.
C24_RunsIndependent ==
  [][\A p \in MsgIds :
       Finishes(p) =>
         /\ runs'[p].sent \in AloneOutcomes(p, KeptOf(FileFor(SourceOf(p).file_id, SourceOf(p).file_type),
                                                       runs'[p].replies))
         /\ \A q \in MsgIds \ {p} : runs'[q] = runs[q]]_vars

\* C24 witness: both invocations have ended, the second begun while the
\* first was suspended, one with the QR and one with the fallback.
C24_Witness ==
  /\ runs[1].pc = "done" /\ runs[2].pc = "done"
  /\ runs[2].overlapped
  /\ runs[1].sent # <<>> /\ runs[1].sent[1].caption.kind = "qr"
  /\ runs[2].sent # <<>> /\ runs[2].sent[1].caption.kind = "fallback"

(***************************************************************************)
(* Claims about the moderation bot's statuses and reasons.                 *)
(***************************************************************************)
\* C31: RECEIVED is a final status: once an invoice's status is RECEIVED, no
\* press of a button, stale ones included, changes it.
C31_ReceivedIsFinal ==
  [][\A id \in DOMAIN invoices :
       invoices[id].status = RECEIVED =>
         id \in DOMAIN invoices' /\ invoices'[id].status = RECEIVED]_vars

\* the edges the keyboard offers
KeyboardEdges ==
  { <<WAIT, APPROVED>>, <<WAIT, REJECTED>>, <<APPROVED, PAID>>, <<PAID, RECEIVED>> }

\* C33: whatever is pressed, duplicated and stale presses included, the
\* status of an invoice changes only along the edges the keyboard offers:
\* WAIT to APPROVED, WAIT to REJECTED, APPROVED to PAID, PAID to RECEIVED.
C33_OnlyKeyboardEdges ==
  [][\A id \in DOMAIN invoices :
       /\ id \in DOMAIN invoices'
       /\ \/ invoices'[id].status = invoices[id].status
          \/ <<invoices[id].status, invoices'[id].status>> \in KeyboardEdges]_vars

\* a text message of user u is handled in this step
TextFrom(u) == last'.handler = "handle_reason_message" /\ last'.user = u
Late == <<"l", "a", "t", "e">>

\* C32: a pending reason request expects exactly one text message.  The
\* next text message of a user who pressed the reason button is stored
\* (stripped) as the reason of the invoice whose button that user pressed
\* most recently, nothing else of the store changes, and the pending entry
\* is removed; a text message of a user with no reason press since their
\* last text changes no invoice and no pending entry.
C32_OneTextPerReasonPress ==
  [][\A u \in Users :
       TextFrom(u) =>
         IF u \in DOMAIN asked
         THEN /\ invoices' = [invoices EXCEPT ![asked[u]].reason = Strip(last'.text)]
              /\ u \notin DOMAIN WAITING_REASON'
              /\ \A w \in DOMAIN WAITING_REASON \ {u} :
                   w \in DOMAIN WAITING_REASON' /\ WAITING_REASON'[w] = WAITING_REASON[w]
         ELSE invoices' = invoices /\ WAITING_REASON' = WAITING_REASON]_vars
\* a user's text has just been stored as the reason of invoice 2, the one
\* asked for last, and the reason of invoice 1 is as it was
C32_Witness ==
  /\ last.handler = "handle_reason_message" /\ last.text # <<>>
  /\ last.user \notin DOMAIN WAITING_REASON
  /\ DOMAIN invoices = MsgIds
  /\ invoices[1].status = REJECTED /\ invoices[1].reason = <<>>
  /\ invoices[2].status = REJECTED /\ invoices[2].reason = Late

(***************************************************************************)
(* Claims about the store.                                                 *)
(***************************************************************************)
\* the fields of record id named in fs are left as they were
Same(id, fs) == id \in DOMAIN invoices' /\ \A f \in fs : invoices'[id][f] = invoices[id][f]
Touched == {id \in DOMAIN invoices : id \notin DOMAIN invoices' \/ invoices'[id] # invoices[id]}

\* C39: a setter of the store changes only its own field of one existing
\* record: set_status leaves reason, kind and src, set_reason leaves status,
\* kind and src, set_source leaves status, reason and kind, and no other
\* record is touched; hence a bound source stays bound, and the same,
\* through every later step.
C39_SettersChangeOwnField ==
  [][/\ last'.handler = "handle_moderation" =>
          \A id \in DOMAIN invoices : Same(id, {"reason", "kind", "src"})
     /\ last'.handler = "handle_reason_message" =>
          \A id \in DOMAIN invoices : Same(id, {"status", "kind", "src"})
     /\ last'.handler = "set_source" =>
          \A id \in DOMAIN invoices : Same(id, {"status", "reason", "kind"})
     /\ Cardinality(Touched) <= 1
     /\ \A id \in DOMAIN invoices : invoices[id].src # <<>> => Same(id, {"src"})]_vars
\* an invoice that got its source, then a reason, and then was approved
\* holds all three
C39_Witness ==
  /\ last.handler = "handle_moderation"
  /\ 1 \in DOMAIN invoices
  /\ invoices[1] = [status |-> APPROVED, reason |-> Late, kind |-> "pdf", src |-> <<SourceOf(1)>>]
  /\ 2 \in DOMAIN invoices /\ invoices[2].src # <<>>

(***************************************************************************)
(* Claims about the string in the QR and the fields of the caption.        *)
(***************************************************************************)
QrSent == pc = "done" /\ sent # <<>> /\ sent[Len(sent)].caption.kind = "qr"

\* C38: on every success the string rasterized into the QR and the
\* sanitized fields behind the caption agree: the value of each required
\* key in the string is the value of that key in the fields, also when the
\* model gave the string itself.
C38_CodeAgreesWithFields ==
  QrSent => \A k \in RequiredKeys : CodeValue(sent[Len(sent)].photo, k) = Get(fields, k)

(***************************************************************************)
(* Claims about main_web_v2 (checked under SpecV2).                        *)
(***************************************************************************)
\* the threads that hold the context of token t and have yet to begin
\* process_document
Waiting(t) == {i \in 1..Len(reqs) : reqs[i].ctx.token = t /\ reqs[i].pc \in {"confirm", "process_document"}}

\* C34: a confirmation token is single-use.  Whatever "ok:" and "no:"
\* callbacks with the token arrive, and however their threads interleave,
\* process_document begins at most once for it, and an "ok:" that comes
\* after an "ok:" or "no:" for the token has been handled starts nothing.
C34_TokenSingleUse ==
  /\ [](\A t \in Issued : journal[t].processed + Cardinality(Waiting(t)) <= 1)
  /\ [][\A t \in Issued :
          (last'.handler = "ok" /\ last'.token = t /\ journal[t].consumed) =>
            reqs' = reqs /\ last'.outcome = "no_session"]_vars
\* process_document has run for a token, and an "ok:" pressed once more
\* for it has just been turned away
C34_Witness ==
  /\ last.handler = "ok" /\ last.outcome = "no_session"
  /\ journal[last.token].processed = 1

\* C35: RESULTS[token] exists only after process_document for that token
\* found PersonalAcc, BIC, PayeeINN and Sum not empty and built the string
\* for the QR; "pay:" and "get:" give payment data exactly while the entry
\* exists, and after a "cancel:" for the token the entry is gone for good,
\* so that every later "pay:" or "get:" says there is no data.
C35_ResultsOnlyWhileValid ==
  /\ [](\A t \in DOMAIN RESULTS :
          /\ t \in Issued /\ journal[t].processed >= 1
          /\ RESULTS[t].fields.PersonalAcc # <<>> /\ RESULTS[t].fields.BIC # <<>>
          /\ RESULTS[t].fields.PayeeINN # <<>> /\ RESULTS[t].fields.Sum > 0
          /\ StartsWith(RESULTS[t].st, TagSep))
  /\ [](\A t \in Issued : journal[t].cancelled => t \notin DOMAIN RESULTS)
  /\ [][last'.handler \in {"pay", "get"} =>
          /\ last'.outcome = "data" <=> last'.token \in DOMAIN RESULTS
          /\ journal[last'.token].cancelled => last'.outcome = "no_data"]_vars
\* after a "cancel:" a "pay:" or "get:" for the token has been told that
\* there is no data
C35_Witness ==
  /\ last.handler \in {"pay", "get"} /\ last.outcome = "no_data"
  /\ journal[last.token].cancelled /\ journal[last.token].processed = 1

\* C36: with WEBHOOK_SECRET set, a request whose path has no secret or
\* another one is answered 403 and handle_update is not run for it:
\* PENDING and RESULTS stay as they are, no thread begins and nothing is
\* sent to a chat.
C36_WrongSecretRefused ==
  [][(/\ ENV.WEBHOOK_SECRET # <<>>
      /\ last'.handler \in UpdateKinds \cup {"none"}
      /\ last'.secret # ENV.WEBHOOK_SECRET) =>
        /\ last'.status = 403 /\ last'.outcome = "forbidden"
        /\ PENDING' = PENDING /\ RESULTS' = RESULTS /\ reqs' = reqs /\ journal' = journal]_vars
\* a request with another secret was refused while a file was awaiting its
\* confirmation and payment data was kept
C36_Witness ==
  /\ PENDING # <<>> /\ RESULTS # <<>>
  /\ last.handler = "none" /\ last.status = 403 /\ last.secret = WrongSecret

\* the update says it comes from a chat or a topic other than the one set
FromElsewhere(u) ==
  \/ ENV.ALLOWED_CHAT_ID # <<>> /\ ToStr(u.chat) # ENV.ALLOWED_CHAT_ID
  \/ ENV.ALLOWED_TOPIC_ID # <<>> /\ TopicStr(u.topic) # ENV.ALLOWED_TOPIC_ID

\* C37: with ALLOWED_CHAT_ID (or ALLOWED_TOPIC_ID) set, an update from
\* another chat (or topic), a message or a callback query, makes no PENDING
\* entry, takes none away, starts no processing and neither reads nor
\* deletes a RESULTS entry.
C37_ForeignUpdatesIgnored ==
  [][(last'.handler \in UpdateKinds \ {"probe"} /\ FromElsewhere(last')) =>
        /\ PENDING' = PENDING /\ RESULTS' = RESULTS /\ reqs' = reqs
        /\ last'.outcome # "data"]_vars

====
